---- MODULE Spec2Model ----
(***************************************************************************)
(* Resource handlers of the azurerm provider as a state machine.           *)
(*                                                                         *)
(* The remote side holds the shared parents (an IoT hub with its routing   *)
(* collections, a network interface with the backend pools of one IP       *)
(* configuration, a subnet with its NAT gateway reference) and the         *)
(* directly managed objects.  The host dispatches Create / Read / Update / *)
(* Delete on resource instances; every handler is cut at its I/O           *)
(* boundaries (lock acquisition, remote call, wait for completion), which  *)
(* are the only points where handlers of different instances interleave.   *)
(***************************************************************************)
EXTENDS Integers, Sequences, FiniteSets, TLC

VARIABLES
    family,   \* which group of resource types this run exercises
    hub,      \* the remote IoT hub
    nic,      \* the remote network interface
    subnet,   \* the remote subnet
    obj,      \* the remote directly managed object
    profiles, \* the remote network profiles: name -> exists
    locks,    \* named mutex registry: lock key -> holding instance, 0 when free
    inst      \* resource instances: configuration, identifier, handler position

vars == <<family, hub, nic, subnet, obj, profiles, locks, inst>>

(* ------------------------------ bounds --------------------------------- *)

MaxLen == 2     \* entries of a parent's collection before the run

Inst == {1, 2}

(* ------------------------------ values --------------------------------- *)

NoId == <<>>                 \* d.SetId(""): the identifier is unset
NoName == "nil"              \* a *string that is nil (no name / no ID)
NoSnap == [none |-> TRUE]    \* no fetched parent is held

\* strings.EqualFold on the names the model uses: "R1" and "r1" differ in case only
Fold(n) == IF n = "R1" THEN "r1" ELSE IF n = "E1" THEN "e1" ELSE n
EqualFold(a, b) == Fold(a) = Fold(b)

\* what a remote request can answer, given whether its target exists
FetchOutcomes(exists) == IF exists THEN {"ok", "error"} ELSE {"notfound", "error"}
SubmitOutcomes == {"accepted", "error"}
WaitOutcomes == {"succeeded", "failed_applied", "failed"}

(* --------------------------- named mutexes ----------------------------- *)

LockKeys ==
    {<<"iothub", "hub1">>, <<"network_interface", "nic1">>,
     <<"virtual_network", "vnet1">>, <<"virtual_network", "vnet2">>,
     <<"subnet", "sub1">>, <<"subnet", "sub2">>,
     <<"nat_gateway", "gw1">>, <<"nat_gateway", "gw2">>,
     <<"network_profile", "np1">>, <<"network_profile", "np2">>}

\* locks.ByName blocks until the key is free
CanLock(k) == locks[k] = 0
Locked(k, i) == [locks EXCEPT ![k] = i]
\* the deferred locks.UnlockByName calls of a returning handler
Unlocked(i) == [k \in LockKeys |-> IF locks[k] = i THEN 0 ELSE locks[k]]

(* ---------------------- handler entry and return ----------------------- *)

\* The local attributes (`attrs`) are followed for the instances of the import
\* runs only: `props` stands for the attributes the remote object reports,
\* `secret` for one the remote never returns.
HasAttrs(r) == "attrs" \in DOMAIN r

\* the remote state a Read was answered from, kept next to the attributes
Seen(r, remote) == IF HasAttrs(r) THEN [r EXCEPT !.seen = remote] ELSE r

Idle(i) == inst[i].pc = "idle"

\* the host invokes a handler: fresh per-invocation locals
Begin(r, op, pc) ==
    [r EXCEPT !.op = op, !.pc = pc, !.res = "none", !.subs = 0, !.got = "none",
              !.found = FALSE, !.rgot = "none", !.rfound = FALSE, !.snap = NoSnap, !.base = NoSnap,
              !.aux = "none"]

\* a return that skips the deferred unlocks
ReturnHoldingLocks(i, r, res) ==
    /\ inst' = [inst EXCEPT ![i] = [r EXCEPT !.pc = "idle", !.res = res,
                                             !.snap = NoSnap, !.base = NoSnap,
                                             !.aux = "none"]]
    /\ UNCHANGED locks

\* the handler returns `res`; its deferred unlocks run
Return(i, r, res) ==
    /\ inst' = [inst EXCEPT ![i] = [r EXCEPT !.pc = "idle", !.res = res,
                                             !.snap = NoSnap, !.base = NoSnap,
                                             !.aux = "none"]]
    /\ locks' = Unlocked(i)

\* after a Delete that returned no error the host drops the instance's state
Removed(r) == [r EXCEPT !.id = NoId]

\* the handler moves on to its next I/O boundary
Goto(i, r, pc) == inst' = [inst EXCEPT ![i] = [r EXCEPT !.pc = pc]]


(* ------------------------------ IoT hub -------------------------------- *)

HubKey == <<"iothub", "hub1">>

\* the identifier "{hubId}/Routes/{name}" resp. "{hubId}/Endpoints/{name}"
RouteId(name) == <<"hub1", "Routes", name>>
EndpointId(name) == <<"hub1", "Endpoints", name>>
\* azure.ParseAzureResourceID(d.Id()).Path["Routes"] / ["Endpoints"]
IdName(id) == id[3]

\* the entry a handler of instance i writes for the name it is configured with
Entry(name, i) == [name |-> name, by |-> i]

Named(s) == SelectSeq(s, LAMBDA e : e.name # NoName)
\* the remote collection holds an entry of exactly that name / ID
Holds(s, name) == \E k \in 1..Len(s) : s[k].name = name

HasName(s, name) == \E k \in 1..Len(s) : s[k].name # NoName /\ EqualFold(s[k].name, name)

\* a parent fetch error that does not tell a missing hub from a conflict
RouteParentErrorAsConflict(o) == IF o = "notfound" THEN "exists" ELSE "error"

\* route_resource.go: the error of a failed parent fetch in CreateUpdate and Delete
RouteParentError(o) == IF o = "notfound" THEN "parent_not_found" ELSE "error"

\* the routes of a CreateUpdate that appends its route without looking for the name
RouteExpandUnchecked(h, routeName, route, isNew) ==
    [conflict |-> FALSE,
     alreadyExists |-> HasName(h.routes, routeName),
     hub |-> IF h.routing THEN [h EXCEPT !.routes = Append(Named(h.routes), route)] ELSE h]

\* route_resource.go 132-166: the routes CreateUpdate submits, from the fetched hub.
\* A nil Routing is replaced by a fresh local value that is never attached to the
\* hub, so the submitted hub then still carries no routing.
RouteExpand(h, routeName, route, isNew) ==
    LET held == IF h.routing THEN h.routes ELSE <<>>
        named == Named(held)
        already == HasName(held, routeName)
        merged == [k \in 1..Len(named) |->
                     IF EqualFold(named[k].name, routeName) THEN route ELSE named[k]]
        routes == IF isNew THEN Append(merged, route) ELSE merged
    IN [conflict |-> isNew /\ already,
        alreadyExists |-> already,
        hub |-> IF h.routing THEN [h EXCEPT !.routes = routes] ELSE h]

\* route_resource.go 260-269: the routes Delete submits
RouteRemove(h, routeName) ==
    [h EXCEPT !.routes =
        SelectSeq(h.routes, LAMBDA e : e.name # NoName /\ ~EqualFold(e.name, routeName))]

IsRoute(i) == inst[i].kind = "route"

resourceIotHubRouteCreateUpdate_Lock(i) ==
    /\ IsRoute(i) /\ inst[i].op \in {"create", "update"} /\ inst[i].pc = "start"
    /\ CanLock(HubKey)
    /\ locks' = Locked(HubKey, i)
    /\ Goto(i, inst[i], "get")
    /\ UNCHANGED <<family, profiles, hub, nic, subnet, obj>>

resourceIotHubRouteCreateUpdate_Get(i) ==
    /\ IsRoute(i) /\ inst[i].op \in {"create", "update"} /\ inst[i].pc = "get"
    /\ \E o \in FetchOutcomes(hub.exists) :
         LET r == [inst[i] EXCEPT !.got = o,
                                  !.found = o = "ok" /\ Holds(hub.routes, inst[i].name)]
             x == RouteExpand(hub, r.name, Entry(r.name, i), r.op = "create")
         IN IF o # "ok" THEN Return(i, r, RouteParentError(o))
            ELSE IF x.conflict THEN Return(i, r, "exists")
            ELSE IF r.op = "update" /\ ~x.alreadyExists
                 THEN Return(i, r, "member_not_found")
            ELSE /\ inst' = [inst EXCEPT ![i] =
                        [r EXCEPT !.pc = "put", !.base = hub, !.snap = x.hub]]
                 /\ UNCHANGED locks
    /\ UNCHANGED <<family, profiles, hub, nic, subnet, obj>>

\* a submission that records the identifier before the operation was awaited
resourceIotHubRouteCreateUpdate_PutSetsId(i) ==
    /\ IsRoute(i) /\ inst[i].op \in {"create", "update"} /\ inst[i].pc = "put"
    /\ \E o \in SubmitOutcomes :
         IF o = "error" THEN Return(i, [inst[i] EXCEPT !.subs = @ + 1], "error")
         ELSE /\ Goto(i, [inst[i] EXCEPT !.subs = @ + 1,
                                          !.id = RouteId(inst[i].name)], "wait")
              /\ UNCHANGED locks
    /\ UNCHANGED <<family, profiles, hub, nic, subnet, obj>>

resourceIotHubRouteCreateUpdate_Put(i) ==
    /\ IsRoute(i) /\ inst[i].op \in {"create", "update"} /\ inst[i].pc = "put"
    /\ \E o \in SubmitOutcomes :
         IF o = "error" THEN Return(i, [inst[i] EXCEPT !.subs = @ + 1], "error")
         ELSE /\ Goto(i, [inst[i] EXCEPT !.subs = @ + 1], "wait")
              /\ UNCHANGED locks
    /\ UNCHANGED <<family, profiles, hub, nic, subnet, obj>>

resourceIotHubRouteCreateUpdate_Wait(i) ==
    /\ IsRoute(i) /\ inst[i].op \in {"create", "update"} /\ inst[i].pc = "wait"
    /\ \E o \in WaitOutcomes :
         /\ hub' = IF o = "failed" THEN hub ELSE inst[i].snap
         /\ IF o = "succeeded"
            THEN /\ Goto(i, [inst[i] EXCEPT !.id = RouteId(inst[i].name)], "read")
                 /\ UNCHANGED locks
            ELSE Return(i, inst[i], "error")
    /\ UNCHANGED <<family, profiles, nic, subnet, obj>>

\* route_resource.go 205-220: the local source, condition, enabled and
\* endpoint_names after Read: those of each route of the hub that matches the
\* name, set in turn; with no match they are what they were
RECURSIVE RouteProps(_, _, _)
RouteProps(routes, routeName, props) ==
    IF routes = <<>> THEN props
    ELSE RouteProps(Tail(routes), routeName,
                    IF Head(routes).name # NoName /\ EqualFold(Head(routes).name, routeName)
                    THEN Head(routes).by ELSE props)

RouteFlatten(h, routeName, r) ==
    IF ~HasAttrs(r) \/ ~h.routing THEN r
    ELSE [r EXCEPT !.attrs.props = RouteProps(h.routes, routeName, r.attrs.props)]

\* route_resource.go 182-223: Read, standalone ("start") or at the end of CreateUpdate
resourceIotHubRouteRead(i) ==
    /\ IsRoute(i)
    /\ \/ inst[i].op = "read" /\ inst[i].pc = "start"
       \/ inst[i].op \in {"create", "update"} /\ inst[i].pc = "read"
    /\ \E o \in FetchOutcomes(hub.exists) :
         LET r == [inst[i] EXCEPT !.rgot = o]
             found == hub.routing /\ HasName(hub.routes, IdName(r.id))
         IN IF o # "ok" THEN Return(i, r, "error")
            ELSE Return(i, [RouteFlatten(hub, IdName(r.id), Seen(r, hub))
                               EXCEPT !.rfound = found], "ok")
    /\ UNCHANGED <<family, profiles, hub, nic, subnet, obj>>

\* a route Delete that goes on to fetch the hub without taking the hub's lock
resourceIotHubRouteDelete_NoLock(i) ==
    /\ IsRoute(i) /\ inst[i].op = "delete" /\ inst[i].pc = "start"
    /\ Goto(i, inst[i], "get")
    /\ UNCHANGED <<family, profiles, hub, nic, subnet, obj, locks>>

resourceIotHubRouteDelete_Lock(i) ==
    /\ IsRoute(i) /\ inst[i].op = "delete" /\ inst[i].pc = "start"
    /\ CanLock(HubKey)
    /\ locks' = Locked(HubKey, i)
    /\ Goto(i, inst[i], "get")
    /\ UNCHANGED <<family, profiles, hub, nic, subnet, obj>>

resourceIotHubRouteDelete_Get(i) ==
    /\ IsRoute(i) /\ inst[i].op = "delete" /\ inst[i].pc = "get"
    /\ \E o \in FetchOutcomes(hub.exists) :
         LET r == [inst[i] EXCEPT !.got = o]
         IN IF o # "ok" THEN Return(i, r, RouteParentError(o))
            ELSE IF ~hub.routing THEN Return(i, Removed(r), "ok")
            ELSE /\ inst' = [inst EXCEPT ![i] =
                        [r EXCEPT !.pc = "put", !.found = Holds(hub.routes, IdName(r.id)),
                                  !.base = hub, !.snap = RouteRemove(hub, IdName(r.id))]]
                 /\ UNCHANGED locks
    /\ UNCHANGED <<family, profiles, hub, nic, subnet, obj>>

resourceIotHubRouteDelete_Put(i) ==
    /\ IsRoute(i) /\ inst[i].op = "delete" /\ inst[i].pc = "put"
    /\ \E o \in SubmitOutcomes :
         IF o = "error" THEN Return(i, [inst[i] EXCEPT !.subs = @ + 1], "error")
         ELSE /\ Goto(i, [inst[i] EXCEPT !.subs = @ + 1], "wait")
              /\ UNCHANGED locks
    /\ UNCHANGED <<family, profiles, hub, nic, subnet, obj>>

resourceIotHubRouteDelete_Wait(i) ==
    /\ IsRoute(i) /\ inst[i].op = "delete" /\ inst[i].pc = "wait"
    /\ \E o \in WaitOutcomes :
         /\ hub' = IF o = "failed" THEN hub ELSE inst[i].snap
         /\ IF o = "succeeded" THEN Return(i, Removed(inst[i]), "ok")
            ELSE Return(i, inst[i], "error")
    /\ UNCHANGED <<family, profiles, nic, subnet, obj>>

(* ---------------- IoT hub storage-container endpoint ------------------ *)

\* endpoint_storage_container_resource.go: the error of a failed parent fetch in CreateUpdate and Delete
EndpointParentError(o) == IF o = "notfound" THEN "parent_not_found" ELSE "error"

\* endpoint_storage_container_resource.go 149-186: the endpoints CreateUpdate submits, from the fetched hub.
\* A nil Routing is replaced by a fresh local value that is never attached to the
\* hub, so the submitted hub then still carries no routing.
EndpointExpand(h, endpointName, endpoint, isNew) ==
    LET held == IF h.routing THEN h.endpoints ELSE <<>>
        named == Named(held)
        already == HasName(held, endpointName)
        merged == [k \in 1..Len(named) |->
                     IF EqualFold(named[k].name, endpointName) THEN endpoint ELSE named[k]]
        endpoints == IF isNew THEN Append(merged, endpoint) ELSE merged
    IN [conflict |-> isNew /\ already,
        alreadyExists |-> already,
        hub |-> IF h.routing THEN [h EXCEPT !.endpoints = endpoints] ELSE h]

\* endpoint_storage_container_resource.go 282-290: the endpoints Delete submits
EndpointRemove(h, endpointName) ==
    [h EXCEPT !.endpoints =
        SelectSeq(h.endpoints, LAMBDA e : e.name # NoName /\ ~EqualFold(e.name, endpointName))]

IsEndpoint(i) == inst[i].kind = "endpoint"

resourceIotHubEndpointStorageContainerCreateUpdate_Lock(i) ==
    /\ IsEndpoint(i) /\ inst[i].op \in {"create", "update"} /\ inst[i].pc = "start"
    /\ CanLock(HubKey)
    /\ locks' = Locked(HubKey, i)
    /\ Goto(i, inst[i], "get")
    /\ UNCHANGED <<family, profiles, hub, nic, subnet, obj>>

resourceIotHubEndpointStorageContainerCreateUpdate_Get(i) ==
    /\ IsEndpoint(i) /\ inst[i].op \in {"create", "update"} /\ inst[i].pc = "get"
    /\ \E o \in FetchOutcomes(hub.exists) :
         LET r == [inst[i] EXCEPT !.got = o,
                                  !.found = o = "ok" /\ Holds(hub.endpoints, inst[i].name)]
             x == EndpointExpand(hub, r.name, Entry(r.name, i), r.op = "create")
         IN IF o # "ok" THEN Return(i, r, EndpointParentError(o))
            ELSE IF x.conflict THEN Return(i, r, "exists")
            ELSE IF r.op = "update" /\ ~x.alreadyExists
                 THEN Return(i, r, "member_not_found")
            ELSE /\ inst' = [inst EXCEPT ![i] =
                        [r EXCEPT !.pc = "put", !.base = hub, !.snap = x.hub]]
                 /\ UNCHANGED locks
    /\ UNCHANGED <<family, profiles, hub, nic, subnet, obj>>

resourceIotHubEndpointStorageContainerCreateUpdate_Put(i) ==
    /\ IsEndpoint(i) /\ inst[i].op \in {"create", "update"} /\ inst[i].pc = "put"
    /\ \E o \in SubmitOutcomes :
         IF o = "error" THEN Return(i, [inst[i] EXCEPT !.subs = @ + 1], "error")
         ELSE /\ Goto(i, [inst[i] EXCEPT !.subs = @ + 1], "wait")
              /\ UNCHANGED locks
    /\ UNCHANGED <<family, profiles, hub, nic, subnet, obj>>

resourceIotHubEndpointStorageContainerCreateUpdate_Wait(i) ==
    /\ IsEndpoint(i) /\ inst[i].op \in {"create", "update"} /\ inst[i].pc = "wait"
    /\ \E o \in WaitOutcomes :
         /\ hub' = IF o = "failed" THEN hub ELSE inst[i].snap
         /\ IF o = "succeeded"
            THEN /\ Goto(i, [inst[i] EXCEPT !.id = EndpointId(inst[i].name)], "read")
                 /\ UNCHANGED locks
            ELSE Return(i, inst[i], "error")
    /\ UNCHANGED <<family, profiles, nic, subnet, obj>>

\* endpoint_storage_container_resource.go 202-245: Read, standalone ("start") or at the end of CreateUpdate
resourceIotHubEndpointStorageContainerRead(i) ==
    /\ IsEndpoint(i)
    /\ \/ inst[i].op = "read" /\ inst[i].pc = "start"
       \/ inst[i].op \in {"create", "update"} /\ inst[i].pc = "read"
    /\ \E o \in FetchOutcomes(hub.exists) :
         LET r == [inst[i] EXCEPT !.rgot = o]
         IN IF o # "ok" THEN Return(i, r, "error")
            ELSE Return(i, [r EXCEPT !.rfound =
                              hub.routing /\ HasName(hub.endpoints, IdName(r.id))], "ok")
    /\ UNCHANGED <<family, profiles, hub, nic, subnet, obj>>

resourceIotHubEndpointStorageContainerDelete_Lock(i) ==
    /\ IsEndpoint(i) /\ inst[i].op = "delete" /\ inst[i].pc = "start"
    /\ CanLock(HubKey)
    /\ locks' = Locked(HubKey, i)
    /\ Goto(i, inst[i], "get")
    /\ UNCHANGED <<family, profiles, hub, nic, subnet, obj>>

resourceIotHubEndpointStorageContainerDelete_Get(i) ==
    /\ IsEndpoint(i) /\ inst[i].op = "delete" /\ inst[i].pc = "get"
    /\ \E o \in FetchOutcomes(hub.exists) :
         LET r == [inst[i] EXCEPT !.got = o]
         IN IF o # "ok" THEN Return(i, r, EndpointParentError(o))
            ELSE IF ~hub.routing THEN Return(i, Removed(r), "ok")
            ELSE /\ inst' = [inst EXCEPT ![i] =
                        [r EXCEPT !.pc = "put", !.found = Holds(hub.endpoints, IdName(r.id)),
                                  !.base = hub, !.snap = EndpointRemove(hub, IdName(r.id))]]
                 /\ UNCHANGED locks
    /\ UNCHANGED <<family, profiles, hub, nic, subnet, obj>>

resourceIotHubEndpointStorageContainerDelete_Put(i) ==
    /\ IsEndpoint(i) /\ inst[i].op = "delete" /\ inst[i].pc = "put"
    /\ \E o \in SubmitOutcomes :
         IF o = "error" THEN Return(i, [inst[i] EXCEPT !.subs = @ + 1], "error")
         ELSE /\ Goto(i, [inst[i] EXCEPT !.subs = @ + 1], "wait")
              /\ UNCHANGED locks
    /\ UNCHANGED <<family, profiles, hub, nic, subnet, obj>>

resourceIotHubEndpointStorageContainerDelete_Wait(i) ==
    /\ IsEndpoint(i) /\ inst[i].op = "delete" /\ inst[i].pc = "wait"
    /\ \E o \in WaitOutcomes :
         /\ hub' = IF o = "failed" THEN hub ELSE inst[i].snap
         /\ IF o = "succeeded" THEN Return(i, Removed(inst[i]), "ok")
            ELSE Return(i, inst[i], "error")
    /\ UNCHANGED <<family, profiles, nic, subnet, obj>>

(* ------------- network interface <-> backend address pool -------------- *)

NicKey == <<"network_interface", "nic1">>

\* Strings are sequences of tokens; "|" and "/ipConfigurations/" are tokens of
\* their own, every other token is a run of characters free of both.
NetworkInterfaceId == <<"nic1">>
BackendAddressPoolId(pool) == <<pool>>

\* part_000 115: fmt.Sprintf("%s/ipConfigurations/%s|%s", ...)
NicPoolId(ipConfigurationName, pool) ==
    NetworkInterfaceId \o <<"/ipConfigurations/">> \o ipConfigurationName
                       \o <<"|">> \o BackendAddressPoolId(pool)

\* strings.Split(s, sep): the runs between the separators, empty runs included
RECURSIVE Split(_, _)
Split(str, sep) ==
    IF \A k \in 1..Len(str) : str[k] # sep THEN <<str>>
    ELSE LET k == CHOOSE n \in 1..Len(str) :
                      str[n] = sep /\ \A m \in 1..(n - 1) : str[m] # sep
         IN <<SubSeq(str, 1, k - 1)>> \o Split(SubSeq(str, k + 1, Len(str)), sep)

\* azure.ParseAzureResourceID of "{nicId}/ipConfigurations/{name}": the path
\* entries networkInterfaces and ipConfigurations
ParseAzureResourceID(str) ==
    IF Len(str) >= 3 /\ str[1] = NetworkInterfaceId[1] /\ str[2] = "/ipConfigurations/"
    THEN [err |-> FALSE, networkInterfaces |-> <<str[1]>>,
          ipConfigurations |-> SubSeq(str, 3, Len(str))]
    ELSE [err |-> TRUE, networkInterfaces |-> <<>>, ipConfigurations |-> <<>>]

\* a test that rejects only an identifier without any "|"
SplitIdTooShort(splitId) == Len(splitId) < 2

\* part_000 155-158, 233-236: len(splitId) != 2
SplitIdRejected(splitId) == Len(splitId) # 2

\* part_000 155-168, 233-246: what Read and Delete take from the identifier
ParseNicPoolId(id) ==
    LET splitId == Split(id, "|")
        nicID == ParseAzureResourceID(splitId[1])
    IN IF SplitIdRejected(splitId) \/ nicID.err
       THEN [err |-> TRUE, networkInterfaces |-> <<>>, ipConfigurations |-> <<>>,
             backendAddressPoolId |-> <<>>]
       ELSE [err |-> FALSE, networkInterfaces |-> nicID.networkInterfaces,
             ipConfigurations |-> nicID.ipConfigurations,
             backendAddressPoolId |-> splitId[2]]

\* FindNetworkInterfaceIPConfiguration: the IP configuration of that name, if any
FindNetworkInterfaceIPConfiguration(n) == n.ipcfg

\* updateNetworkInterfaceIPConfiguration: the interface with that one IP
\* configuration replaced by the changed one
updateNetworkInterfaceIPConfiguration(n, pools) == [n EXCEPT !.pools = pools]

HasPool(s, poolId) ==
    \E k \in 1..Len(s) : s[k].name # NoName /\ BackendAddressPoolId(s[k].name) = poolId

\* the remote interface holds a pool reference of exactly that ID
HoldsPool(s, poolId) == \E k \in 1..Len(s) : BackendAddressPoolId(s[k].name) = poolId

\* part_000 82-89, 251-258: the error of a failed interface fetch in Create and Delete
NicParentError(o) == IF o = "notfound" THEN "parent_not_found" ELSE "error"

\* part_000 112-132: the pools Create submits
NicPoolExpand(n, poolId, entry) ==
    [conflict |-> HasPool(n.pools, poolId),
     pools |-> Append(Named(n.pools), entry)]

\* part_000 281-293: the pools Delete submits
NicPoolRemove(n, poolId) ==
    SelectSeq(n.pools, LAMBDA e : e.name # NoName /\ BackendAddressPoolId(e.name) # poolId)

IsNicPool(i) == inst[i].kind = "nicpool"

resourceNetworkInterfaceBackendAddressPoolAssociationCreate_Lock(i) ==
    /\ IsNicPool(i) /\ inst[i].op = "create" /\ inst[i].pc = "start"
    /\ CanLock(NicKey)
    /\ locks' = Locked(NicKey, i)
    /\ Goto(i, inst[i], "get")
    /\ UNCHANGED <<family, profiles, hub, nic, subnet, obj>>

resourceNetworkInterfaceBackendAddressPoolAssociationCreate_Get(i) ==
    /\ IsNicPool(i) /\ inst[i].op = "create" /\ inst[i].pc = "get"
    /\ \E o \in FetchOutcomes(nic.exists) :
         LET r == [inst[i] EXCEPT !.got = o,
                                  !.found = o = "ok" /\ Holds(nic.pools, inst[i].name)]
             x == NicPoolExpand(nic, BackendAddressPoolId(r.name), Entry(r.name, i))
         IN IF o # "ok" THEN Return(i, r, NicParentError(o))
            ELSE IF ~FindNetworkInterfaceIPConfiguration(nic) THEN Return(i, r, "error")
            ELSE IF x.conflict THEN Return(i, r, "exists")
            ELSE /\ inst' = [inst EXCEPT ![i] =
                        [r EXCEPT !.pc = "put", !.base = nic,
                                  !.snap = updateNetworkInterfaceIPConfiguration(nic, x.pools)]]
                 /\ UNCHANGED locks
    /\ UNCHANGED <<family, profiles, hub, nic, subnet, obj>>

resourceNetworkInterfaceBackendAddressPoolAssociationCreate_Put(i) ==
    /\ IsNicPool(i) /\ inst[i].op = "create" /\ inst[i].pc = "put"
    /\ \E o \in SubmitOutcomes :
         IF o = "error" THEN Return(i, [inst[i] EXCEPT !.subs = @ + 1], "error")
         ELSE /\ Goto(i, [inst[i] EXCEPT !.subs = @ + 1], "wait")
              /\ UNCHANGED locks
    /\ UNCHANGED <<family, profiles, hub, nic, subnet, obj>>

resourceNetworkInterfaceBackendAddressPoolAssociationCreate_Wait(i) ==
    /\ IsNicPool(i) /\ inst[i].op = "create" /\ inst[i].pc = "wait"
    /\ \E o \in WaitOutcomes :
         /\ nic' = IF o = "failed" THEN nic ELSE inst[i].snap
         /\ IF o = "succeeded"
            THEN /\ Goto(i, [inst[i] EXCEPT !.id = NicPoolId(inst[i].ipc, inst[i].name)],
                         "read")
                 /\ UNCHANGED locks
            ELSE Return(i, inst[i], "error")
    /\ UNCHANGED <<family, profiles, hub, subnet, obj>>

\* part_000 150-226: Read, standalone ("start") or at the end of Create
resourceNetworkInterfaceBackendAddressPoolAssociationRead(i) ==
    /\ IsNicPool(i)
    /\ \/ inst[i].op = "read" /\ inst[i].pc = "start"
       \/ inst[i].op = "create" /\ inst[i].pc = "read"
    /\ \E o \in FetchOutcomes(nic.exists) :
         LET x == ParseNicPoolId(inst[i].id)
             r == [inst[i] EXCEPT !.rgot = o]
             found == HasPool(nic.pools, x.backendAddressPoolId)
         IN IF x.err THEN Return(i, inst[i], "error")
            ELSE IF o = "notfound" THEN Return(i, [r EXCEPT !.id = NoId], "ok")
            ELSE IF o # "ok" THEN Return(i, r, "error")
            ELSE IF ~FindNetworkInterfaceIPConfiguration(nic)
                 THEN Return(i, [r EXCEPT !.id = NoId], "ok")
            ELSE IF ~found THEN Return(i, [r EXCEPT !.id = NoId], "ok")
            ELSE Return(i, [r EXCEPT !.rfound = TRUE], "ok")
    /\ UNCHANGED <<family, profiles, hub, nic, subnet, obj>>

\* part_000 233-249: the identifier is taken apart, then the interface is locked
resourceNetworkInterfaceBackendAddressPoolAssociationDelete_Lock(i) ==
    /\ IsNicPool(i) /\ inst[i].op = "delete" /\ inst[i].pc = "start"
    /\ IF ParseNicPoolId(inst[i].id).err
       THEN Return(i, inst[i], "error")
       ELSE /\ CanLock(NicKey)
            /\ locks' = Locked(NicKey, i)
            /\ Goto(i, inst[i], "get")
    /\ UNCHANGED <<family, profiles, hub, nic, subnet, obj>>

resourceNetworkInterfaceBackendAddressPoolAssociationDelete_Get(i) ==
    /\ IsNicPool(i) /\ inst[i].op = "delete" /\ inst[i].pc = "get"
    /\ \E o \in FetchOutcomes(nic.exists) :
         LET r == [inst[i] EXCEPT !.got = o]
             x == ParseNicPoolId(r.id)
         IN IF o # "ok" THEN Return(i, r, NicParentError(o))
            ELSE IF ~FindNetworkInterfaceIPConfiguration(nic) THEN Return(i, r, "error")
            ELSE /\ inst' = [inst EXCEPT ![i] =
                        [r EXCEPT !.pc = "put",
                                  !.found = HoldsPool(nic.pools, x.backendAddressPoolId),
                                  !.base = nic,
                                  !.snap = updateNetworkInterfaceIPConfiguration(
                                               nic, NicPoolRemove(nic, x.backendAddressPoolId))]]
                 /\ UNCHANGED locks
    /\ UNCHANGED <<family, profiles, hub, nic, subnet, obj>>

resourceNetworkInterfaceBackendAddressPoolAssociationDelete_Put(i) ==
    /\ IsNicPool(i) /\ inst[i].op = "delete" /\ inst[i].pc = "put"
    /\ \E o \in SubmitOutcomes :
         IF o = "error" THEN Return(i, [inst[i] EXCEPT !.subs = @ + 1], "error")
         ELSE /\ Goto(i, [inst[i] EXCEPT !.subs = @ + 1], "wait")
              /\ UNCHANGED locks
    /\ UNCHANGED <<family, profiles, hub, nic, subnet, obj>>

resourceNetworkInterfaceBackendAddressPoolAssociationDelete_Wait(i) ==
    /\ IsNicPool(i) /\ inst[i].op = "delete" /\ inst[i].pc = "wait"
    /\ \E o \in WaitOutcomes :
         /\ nic' = IF o = "failed" THEN nic ELSE inst[i].snap
         /\ IF o = "succeeded" THEN Return(i, Removed(inst[i]), "ok")
            ELSE Return(i, inst[i], "error")
    /\ UNCHANGED <<family, profiles, hub, subnet, obj>>

(* ------------------- subnet <-> NAT gateway association ---------------- *)

VnetKey == <<"virtual_network", "vnet1">>
SubnetKey == <<"subnet", "sub1">>
GatewayKey(gw) == <<"nat_gateway", gw>>

\* the identifier is the subnet's own ID
SubnetId == <<"vnet1", "sub1">>

\* subnet_nat_gateway_association_resource.go 83-88: the error of a failed subnet
\* fetch in Create
SubnetParentError(o) == IF o = "notfound" THEN "parent_not_found" ELSE "error"

\* subnet_nat_gateway_association_resource.go 176-182, 205-211: the result of a
\* failed subnet fetch in Delete
SubnetDeleteFetchResult(o) == IF o = "notfound" THEN "ok" ELSE "error"

IsNatAssoc(i) == inst[i].kind = "natassoc"

\* 75-80: the gateway, the virtual network and the subnet are locked in this order
resourceSubnetNatGatewayAssociationCreate_LockGateway(i) ==
    /\ IsNatAssoc(i) /\ inst[i].op = "create" /\ inst[i].pc = "start"
    /\ CanLock(GatewayKey(inst[i].name))
    /\ locks' = Locked(GatewayKey(inst[i].name), i)
    /\ Goto(i, inst[i], "lock_vnet")
    /\ UNCHANGED <<family, profiles, hub, nic, subnet, obj>>

resourceSubnetNatGatewayAssociationCreate_LockVnet(i) ==
    /\ IsNatAssoc(i) /\ inst[i].op = "create" /\ inst[i].pc = "lock_vnet"
    /\ CanLock(VnetKey)
    /\ locks' = Locked(VnetKey, i)
    /\ Goto(i, inst[i], "lock_subnet")
    /\ UNCHANGED <<family, profiles, hub, nic, subnet, obj>>

resourceSubnetNatGatewayAssociationCreate_LockSubnet(i) ==
    /\ IsNatAssoc(i) /\ inst[i].op = "create" /\ inst[i].pc = "lock_subnet"
    /\ CanLock(SubnetKey)
    /\ locks' = Locked(SubnetKey, i)
    /\ Goto(i, inst[i], "get")
    /\ UNCHANGED <<family, profiles, hub, nic, subnet, obj>>

resourceSubnetNatGatewayAssociationCreate_Get(i) ==
    /\ IsNatAssoc(i) /\ inst[i].op = "create" /\ inst[i].pc = "get"
    /\ \E o \in FetchOutcomes(subnet.exists) :
         LET r == [inst[i] EXCEPT !.got = o,
                                  !.found = o = "ok" /\ subnet.nat # "none"]
         IN IF o # "ok" THEN Return(i, r, SubnetParentError(o))
            ELSE IF subnet.nat # "none" THEN Return(i, r, "exists")
            ELSE /\ inst' = [inst EXCEPT ![i] =
                        [r EXCEPT !.pc = "put", !.base = subnet,
                                  !.snap = [subnet EXCEPT !.nat = r.name]]]
                 /\ UNCHANGED locks
    /\ UNCHANGED <<family, profiles, hub, nic, subnet, obj>>

resourceSubnetNatGatewayAssociationCreate_Put(i) ==
    /\ IsNatAssoc(i) /\ inst[i].op = "create" /\ inst[i].pc = "put"
    /\ \E o \in SubmitOutcomes :
         IF o = "error" THEN Return(i, [inst[i] EXCEPT !.subs = @ + 1], "error")
         ELSE /\ Goto(i, [inst[i] EXCEPT !.subs = @ + 1], "wait")
              /\ UNCHANGED locks
    /\ UNCHANGED <<family, profiles, hub, nic, subnet, obj>>

resourceSubnetNatGatewayAssociationCreate_Wait(i) ==
    /\ IsNatAssoc(i) /\ inst[i].op = "create" /\ inst[i].pc = "wait"
    /\ \E o \in WaitOutcomes :
         /\ subnet' = IF o = "failed" THEN subnet ELSE inst[i].snap
         /\ IF o = "succeeded"
            THEN Goto(i, inst[i], "get_id") /\ UNCHANGED locks
            ELSE Return(i, inst[i], "error")
    /\ UNCHANGED <<family, profiles, hub, nic, obj>>

\* 111-115: the subnet is fetched again for its ID
resourceSubnetNatGatewayAssociationCreate_GetId(i) ==
    /\ IsNatAssoc(i) /\ inst[i].op = "create" /\ inst[i].pc = "get_id"
    /\ \E o \in FetchOutcomes(subnet.exists) :
         IF o # "ok" THEN Return(i, inst[i], "error")
         ELSE /\ Goto(i, [inst[i] EXCEPT !.id = SubnetId], "read")
              /\ UNCHANGED locks
    /\ UNCHANGED <<family, profiles, hub, nic, subnet, obj>>

\* 120-159: Read, standalone ("start") or at the end of Create
resourceSubnetNatGatewayAssociationRead(i) ==
    /\ IsNatAssoc(i)
    /\ \/ inst[i].op = "read" /\ inst[i].pc = "start"
       \/ inst[i].op = "create" /\ inst[i].pc = "read"
    /\ \E o \in FetchOutcomes(subnet.exists) :
         LET r == [inst[i] EXCEPT !.rgot = o]
         IN IF o = "notfound" THEN Return(i, [r EXCEPT !.id = NoId], "ok")
            ELSE IF o # "ok" THEN Return(i, r, "error")
            ELSE IF subnet.nat = "none" THEN Return(i, [r EXCEPT !.id = NoId], "ok")
            ELSE Return(i, [r EXCEPT !.rfound = TRUE], "ok")
    /\ UNCHANGED <<family, profiles, hub, nic, subnet, obj>>

\* 175-197: Delete first fetches the subnet, without a lock, to learn the gateway
resourceSubnetNatGatewayAssociationDelete_Get(i) ==
    /\ IsNatAssoc(i) /\ inst[i].op = "delete" /\ inst[i].pc = "start"
    /\ \E o \in FetchOutcomes(subnet.exists) :
         LET r == [inst[i] EXCEPT !.got = o]
         IN IF o # "ok"
            THEN Return(i, IF o = "notfound" THEN Removed(r) ELSE r,
                        SubnetDeleteFetchResult(o))
            ELSE IF subnet.nat = "none" THEN Return(i, Removed(r), "ok")
            ELSE /\ Goto(i, [r EXCEPT !.found = TRUE, !.aux = subnet.nat], "lock_gateway")
                 /\ UNCHANGED locks
    /\ UNCHANGED <<family, profiles, hub, nic, subnet, obj>>

\* 198-201: the gateway and the virtual network are locked
resourceSubnetNatGatewayAssociationDelete_LockGateway(i) ==
    /\ IsNatAssoc(i) /\ inst[i].op = "delete" /\ inst[i].pc = "lock_gateway"
    /\ CanLock(GatewayKey(inst[i].aux))
    /\ locks' = Locked(GatewayKey(inst[i].aux), i)
    /\ Goto(i, inst[i], "lock_vnet")
    /\ UNCHANGED <<family, profiles, hub, nic, subnet, obj>>

resourceSubnetNatGatewayAssociationDelete_LockVnet(i) ==
    /\ IsNatAssoc(i) /\ inst[i].op = "delete" /\ inst[i].pc = "lock_vnet"
    /\ CanLock(VnetKey)
    /\ locks' = Locked(VnetKey, i)
    /\ Goto(i, inst[i], "get")
    /\ UNCHANGED <<family, profiles, hub, nic, subnet, obj>>

\* 204-213: the subnet is fetched again under the locks
resourceSubnetNatGatewayAssociationDelete_GetLatest(i) ==
    /\ IsNatAssoc(i) /\ inst[i].op = "delete" /\ inst[i].pc = "get"
    /\ \E o \in FetchOutcomes(subnet.exists) :
         LET r == [inst[i] EXCEPT !.got = o]
         IN IF o # "ok"
            THEN Return(i, IF o = "notfound" THEN Removed(r) ELSE r,
                        SubnetDeleteFetchResult(o))
            ELSE /\ inst' = [inst EXCEPT ![i] =
                        [r EXCEPT !.pc = "put", !.base = subnet,
                                  !.snap = [subnet EXCEPT !.nat = "none"]]]
                 /\ UNCHANGED locks
    /\ UNCHANGED <<family, profiles, hub, nic, subnet, obj>>

resourceSubnetNatGatewayAssociationDelete_Put(i) ==
    /\ IsNatAssoc(i) /\ inst[i].op = "delete" /\ inst[i].pc = "put"
    /\ \E o \in SubmitOutcomes :
         IF o = "error" THEN Return(i, [inst[i] EXCEPT !.subs = @ + 1], "error")
         ELSE /\ Goto(i, [inst[i] EXCEPT !.subs = @ + 1], "wait")
              /\ UNCHANGED locks
    /\ UNCHANGED <<family, profiles, hub, nic, subnet, obj>>

resourceSubnetNatGatewayAssociationDelete_Wait(i) ==
    /\ IsNatAssoc(i) /\ inst[i].op = "delete" /\ inst[i].pc = "wait"
    /\ \E o \in WaitOutcomes :
         /\ subnet' = IF o = "failed" THEN subnet ELSE inst[i].snap
         /\ IF o = "succeeded" THEN Return(i, Removed(inst[i]), "ok")
            ELSE Return(i, inst[i], "error")
    /\ UNCHANGED <<family, profiles, hub, nic, obj>>

(* --------------------- directly managed objects ------------------------ *)

\* the identifier the remote reports for the object
ObjId == <<"obj1">>

\* what a remote delete request can answer: an absent target is answered with
\* success (nothing to do) or with not-found
DeleteOutcomes(exists) ==
    IF exists THEN {"accepted", "error"} ELSE {"accepted", "notfound", "error"}
DeleteWaitOutcomes == {"succeeded", "notfound", "failed"}

Created(i) == [obj EXCEPT !.exists = TRUE, !.by = i]
Deleted == [obj EXCEPT !.exists = FALSE, !.by = 0]

(* SQL elastic pool *)

IsSqlPool(i) == inst[i].kind = "sqlpool"

\* an existence check that never reports the pool as existing
SqlElasticPoolNeverExists(o) == FALSE

\* sql_elasticpool_resource.go 113-124: the existence check of a new resource
SqlElasticPoolExists(o) == o = "ok"

resourceSqlElasticPoolCreateUpdate_Check(i) ==
    /\ IsSqlPool(i) /\ inst[i].op = "create" /\ inst[i].pc = "start"
    /\ \E o \in FetchOutcomes(obj.exists) :
         LET r == [inst[i] EXCEPT !.got = o, !.found = o = "ok" /\ obj.exists]
         IN IF o = "error" THEN Return(i, r, "error")
            ELSE IF SqlElasticPoolExists(o) THEN Return(i, r, "exists")
            ELSE Goto(i, r, "put") /\ UNCHANGED locks
    /\ UNCHANGED <<family, profiles, hub, nic, subnet, obj>>

\* a submission that is issued again after the request returned an error
resourceSqlElasticPoolCreateUpdate_PutRetries(i) ==
    /\ IsSqlPool(i)
    /\ \/ inst[i].op = "create" /\ inst[i].pc = "put"
       \/ inst[i].op = "update" /\ inst[i].pc = "start"
    /\ \E o \in SubmitOutcomes :
         IF o = "error"
         THEN IF inst[i].subs = 0
              THEN /\ inst' = [inst EXCEPT ![i].subs = @ + 1]
                   /\ UNCHANGED locks
              ELSE Return(i, [inst[i] EXCEPT !.subs = @ + 1], "error")
         ELSE /\ Goto(i, [inst[i] EXCEPT !.subs = @ + 1], "wait")
              /\ UNCHANGED locks
    /\ UNCHANGED <<family, profiles, hub, nic, subnet, obj>>

\* sql_elasticpool_resource.go 126-136: the one CreateOrUpdate request; `subs`
\* counts the mutating requests the invocation has issued
resourceSqlElasticPoolCreateUpdate_Put(i) ==
    /\ IsSqlPool(i)
    /\ \/ inst[i].op = "create" /\ inst[i].pc = "put"
       \/ inst[i].op = "update" /\ inst[i].pc = "start"
    /\ \E o \in SubmitOutcomes :
         IF o = "error" THEN Return(i, [inst[i] EXCEPT !.subs = @ + 1], "error")
         ELSE /\ Goto(i, [inst[i] EXCEPT !.subs = @ + 1], "wait")
              /\ UNCHANGED locks
    /\ UNCHANGED <<family, profiles, hub, nic, subnet, obj>>

resourceSqlElasticPoolCreateUpdate_Wait(i) ==
    /\ IsSqlPool(i) /\ inst[i].op \in {"create", "update"} /\ inst[i].pc = "wait"
    /\ \E o \in WaitOutcomes :
         /\ obj' = IF o = "failed" THEN obj ELSE Created(i)
         /\ IF o = "succeeded"
            THEN Goto(i, inst[i], "get_id") /\ UNCHANGED locks
            ELSE Return(i, inst[i], "error")
    /\ UNCHANGED <<family, profiles, hub, nic, subnet>>

resourceSqlElasticPoolCreateUpdate_GetId(i) ==
    /\ IsSqlPool(i) /\ inst[i].op \in {"create", "update"} /\ inst[i].pc = "get_id"
    /\ \E o \in FetchOutcomes(obj.exists) :
         IF o # "ok" THEN Return(i, inst[i], "error")
         ELSE /\ Goto(i, [inst[i] EXCEPT !.id = ObjId], "read")
              /\ UNCHANGED locks
    /\ UNCHANGED <<family, profiles, hub, nic, subnet, obj>>

\* a Read that treats every fetch error as the pool being gone
resourceSqlElasticPoolRead_DropsOnError(i) ==
    /\ IsSqlPool(i)
    /\ \/ inst[i].op = "read" /\ inst[i].pc = "start"
       \/ inst[i].op \in {"create", "update"} /\ inst[i].pc = "read"
    /\ \E o \in FetchOutcomes(obj.exists) :
         LET r == [inst[i] EXCEPT !.rgot = o]
         IN IF o # "ok" THEN Return(i, [r EXCEPT !.id = NoId], "ok")
            ELSE Return(i, [r EXCEPT !.rfound = TRUE], "ok")
    /\ UNCHANGED <<family, profiles, hub, nic, subnet, obj>>

\* sql_elasticpool_resource.go 155-218
resourceSqlElasticPoolRead(i) ==
    /\ IsSqlPool(i)
    /\ \/ inst[i].op = "read" /\ inst[i].pc = "start"
       \/ inst[i].op \in {"create", "update"} /\ inst[i].pc = "read"
    /\ \E o \in FetchOutcomes(obj.exists) :
         LET r == [inst[i] EXCEPT !.rgot = o]
         IN IF o = "notfound" THEN Return(i, [r EXCEPT !.id = NoId], "ok")
            ELSE IF o # "ok" THEN Return(i, r, "error")
            ELSE Return(i, [r EXCEPT !.rfound = TRUE], "ok")
    /\ UNCHANGED <<family, profiles, hub, nic, subnet, obj>>

\* sql_elasticpool_resource.go 220-235: every error of the delete call is returned
resourceSqlElasticPoolDelete(i) ==
    /\ IsSqlPool(i) /\ inst[i].op = "delete" /\ inst[i].pc = "start"
    /\ \E o \in DeleteOutcomes(obj.exists) :
         LET r == [inst[i] EXCEPT !.got = o, !.subs = @ + 1]
         IN /\ obj' = IF o = "accepted" THEN Deleted ELSE obj
            /\ IF o = "accepted" THEN Return(i, Removed(r), "ok")
               ELSE Return(i, r, "error")
    /\ UNCHANGED <<family, profiles, hub, nic, subnet>>

(* virtual machine scale set extension *)

IsVmssExt(i) == inst[i].kind = "vmssext"

\* part_003 126-135: everything but a not-found answer counts as "already exists"
VirtualMachineScaleSetExtensionExists(o) == o # "notfound"

resourceVirtualMachineScaleSetExtensionCreate_Check(i) ==
    /\ IsVmssExt(i) /\ inst[i].op = "create" /\ inst[i].pc = "start"
    /\ \E o \in FetchOutcomes(obj.parent /\ obj.exists) :
         LET r == [inst[i] EXCEPT !.got = o, !.found = o = "ok" /\ obj.exists]
         IN IF o = "error" THEN Return(i, r, "error")
            ELSE IF VirtualMachineScaleSetExtensionExists(o) THEN Return(i, r, "exists")
            ELSE Goto(i, r, "put") /\ UNCHANGED locks
    /\ UNCHANGED <<family, profiles, hub, nic, subnet, obj>>

\* part_003 174-177 (Create) and 255-258 (Update)
resourceVirtualMachineScaleSetExtension_Put(i) ==
    /\ IsVmssExt(i)
    /\ \/ inst[i].op = "create" /\ inst[i].pc = "put"
       \/ inst[i].op = "update" /\ inst[i].pc = "start"
    /\ \E o \in IF obj.parent THEN SubmitOutcomes ELSE {"error"} :
         IF o = "error" THEN Return(i, inst[i], "error")
         ELSE /\ Goto(i, [inst[i] EXCEPT !.subs = @ + 1], "wait")
              /\ UNCHANGED locks
    /\ UNCHANGED <<family, profiles, hub, nic, subnet, obj>>

\* part_003 179-181 (Create) and 260-262 (Update)
resourceVirtualMachineScaleSetExtension_Wait(i) ==
    /\ IsVmssExt(i) /\ inst[i].op \in {"create", "update"} /\ inst[i].pc = "wait"
    /\ \E o \in WaitOutcomes :
         /\ obj' = IF o = "failed" THEN obj ELSE Created(i)
         /\ IF o = "succeeded"
            THEN /\ Goto(i, inst[i], IF inst[i].op = "create" THEN "get_id" ELSE "read")
                 /\ UNCHANGED locks
            ELSE Return(i, inst[i], "error")
    /\ UNCHANGED <<family, profiles, hub, nic, subnet>>

resourceVirtualMachineScaleSetExtensionCreate_GetId(i) ==
    /\ IsVmssExt(i) /\ inst[i].op = "create" /\ inst[i].pc = "get_id"
    /\ \E o \in FetchOutcomes(obj.parent /\ obj.exists) :
         IF o # "ok" THEN Return(i, inst[i], "error")
         ELSE /\ Goto(i, [inst[i] EXCEPT !.id = ObjId], "read")
              /\ UNCHANGED locks
    /\ UNCHANGED <<family, profiles, hub, nic, subnet, obj>>

\* part_003 271-330: the scale set is fetched first, then the extension
resourceVirtualMachineScaleSetExtensionRead(i) ==
    /\ IsVmssExt(i)
    /\ \/ inst[i].op = "read" /\ inst[i].pc = "start"
       \/ inst[i].op \in {"create", "update"} /\ inst[i].pc = "read"
    /\ \E po \in FetchOutcomes(obj.parent), o \in FetchOutcomes(obj.parent /\ obj.exists) :
         LET r == [inst[i] EXCEPT !.rgot = IF po = "ok" THEN o ELSE po]
         IN IF po = "notfound" THEN Return(i, [r EXCEPT !.id = NoId], "ok")
            ELSE IF po # "ok" THEN Return(i, r, "error")
            ELSE IF o = "notfound" THEN Return(i, [r EXCEPT !.id = NoId], "ok")
            ELSE IF o # "ok" THEN Return(i, r, "error")
            ELSE Return(i, [r EXCEPT !.rfound = TRUE], "ok")
    /\ UNCHANGED <<family, profiles, hub, nic, subnet, obj>>

\* part_003 332-357
resourceVirtualMachineScaleSetExtensionDelete(i) ==
    /\ IsVmssExt(i) /\ inst[i].op = "delete" /\ inst[i].pc = "start"
    /\ \E o \in DeleteOutcomes(obj.parent /\ obj.exists) :
         LET r == [inst[i] EXCEPT !.got = o, !.subs = @ + 1]
         IN IF o = "notfound" THEN Return(i, Removed(r), "ok")
            ELSE IF o = "error" THEN Return(i, r, "error")
            ELSE Goto(i, r, "wait") /\ UNCHANGED locks
    /\ UNCHANGED <<family, profiles, hub, nic, subnet, obj>>

resourceVirtualMachineScaleSetExtensionDelete_Wait(i) ==
    /\ IsVmssExt(i) /\ inst[i].op = "delete" /\ inst[i].pc = "wait"
    /\ \E o \in DeleteWaitOutcomes \ {"notfound"} :
         /\ obj' = IF o = "succeeded" THEN Deleted ELSE obj
         /\ IF o = "succeeded" THEN Return(i, Removed(inst[i]), "ok")
            ELSE Return(i, inst[i], "error")
    /\ UNCHANGED <<family, profiles, hub, nic, subnet>>

(* resource group *)

IsResourceGroup(i) == inst[i].kind = "rg"

\* part_008 564-593: not-found is success, at the request and at the wait
resourceResourceGroupDelete(i) ==
    /\ IsResourceGroup(i) /\ inst[i].op = "delete" /\ inst[i].pc = "start"
    /\ \E o \in DeleteOutcomes(obj.exists) :
         LET r == [inst[i] EXCEPT !.got = o, !.subs = @ + 1]
         IN IF o = "notfound" THEN Return(i, Removed(r), "ok")
            ELSE IF o = "error" THEN Return(i, r, "error")
            ELSE Goto(i, r, "wait") /\ UNCHANGED locks
    /\ UNCHANGED <<family, profiles, hub, nic, subnet, obj>>

resourceResourceGroupDelete_Wait(i) ==
    /\ IsResourceGroup(i) /\ inst[i].op = "delete" /\ inst[i].pc = "wait"
    /\ \E o \in DeleteWaitOutcomes :
         /\ obj' = IF o = "failed" THEN obj ELSE Deleted
         /\ IF o = "failed" THEN Return(i, inst[i], "error")
            ELSE Return(i, Removed(inst[i]), "ok")
    /\ UNCHANGED <<family, profiles, hub, nic, subnet>>

(* site recovery protection container *)

IsSiteRecoveryContainer(i) == inst[i].kind = "srcontainer"

\* part_002 382-407: every error of the request and of the wait is returned
resourceSiteRecoveryProtectionContainerDelete(i) ==
    /\ IsSiteRecoveryContainer(i) /\ inst[i].op = "delete" /\ inst[i].pc = "start"
    /\ \E o \in DeleteOutcomes(obj.exists) :
         LET r == [inst[i] EXCEPT !.got = o, !.subs = @ + 1]
         IN IF o # "accepted" THEN Return(i, r, "error")
            ELSE Goto(i, r, "wait") /\ UNCHANGED locks
    /\ UNCHANGED <<family, profiles, hub, nic, subnet, obj>>

resourceSiteRecoveryProtectionContainerDelete_Wait(i) ==
    /\ IsSiteRecoveryContainer(i) /\ inst[i].op = "delete" /\ inst[i].pc = "wait"
    /\ \E o \in DeleteWaitOutcomes :
         /\ obj' = IF o = "succeeded" THEN Deleted ELSE obj
         /\ IF o = "succeeded" THEN Return(i, Removed(inst[i]), "ok")
            ELSE Return(i, [inst[i] EXCEPT !.got = o], "error")
    /\ UNCHANGED <<family, profiles, hub, nic, subnet>>

(* disk encryption set *)

IsDiskEncryptionSet(i) == inst[i].kind = "des"

\* stream_analytics_stream_input_blob_resource.go 495-515: every error is returned
resourceDiskEncryptionSetDelete(i) ==
    /\ IsDiskEncryptionSet(i) /\ inst[i].op = "delete" /\ inst[i].pc = "start"
    /\ \E o \in DeleteOutcomes(obj.exists) :
         LET r == [inst[i] EXCEPT !.got = o, !.subs = @ + 1]
         IN IF o # "accepted" THEN Return(i, r, "error")
            ELSE Goto(i, r, "wait") /\ UNCHANGED locks
    /\ UNCHANGED <<family, profiles, hub, nic, subnet, obj>>

resourceDiskEncryptionSetDelete_Wait(i) ==
    /\ IsDiskEncryptionSet(i) /\ inst[i].op = "delete" /\ inst[i].pc = "wait"
    /\ \E o \in DeleteWaitOutcomes :
         /\ obj' = IF o = "succeeded" THEN Deleted ELSE obj
         /\ IF o = "succeeded" THEN Return(i, Removed(inst[i]), "ok")
            ELSE Return(i, [inst[i] EXCEPT !.got = o], "error")
    /\ UNCHANGED <<family, profiles, hub, nic, subnet>>

\* 556-569: the vault a key ID names (ParseNestedItemID, KeyVaultIDFromBaseUrl)
KeyVaultIDFromBaseUrl(keyVaultKeyId) == IF keyVaultKeyId = "k1" THEN "v1" ELSE "v2"

\* 556-599: what the check learns about the key's vault; a failed lookup or
\* fetch is an error, unset properties count as disabled
diskEncryptionSetRetrieveKeyVault(vaults, keyVaultKeyId, o) ==
    LET v == vaults[KeyVaultIDFromBaseUrl(keyVaultKeyId)]
    IN [err |-> o # "ok",
        keyVaultId |-> KeyVaultIDFromBaseUrl(keyVaultKeyId),
        softDeleteEnabled |-> o = "ok" /\ v.softDelete,
        purgeProtectionEnabled |-> o = "ok" /\ v.purgeProtection]

\* a validation that asks for soft delete only
KeyVaultRefusedWithoutSoftDelete(keyVaultDetails) ==
    keyVaultDetails.err \/ ~keyVaultDetails.softDeleteEnabled

\* 354-363, 464-472: the handler returns an error unless the vault was read
\* and has soft delete and purge protection enabled
KeyVaultRefused(keyVaultDetails) ==
    \/ keyVaultDetails.err
    \/ ~keyVaultDetails.softDeleteEnabled
    \/ ~keyVaultDetails.purgeProtectionEnabled

\* the request of this invocation carries an active key: Create always,
\* Update when key_vault_key_id has changed (463, 473-480)
CarriesKey(r) == r.op = "create" \/ r.changed

\* 343-351: the existence check of Create
resourceDiskEncryptionSetCreate_Check(i) ==
    /\ IsDiskEncryptionSet(i) /\ inst[i].op = "create" /\ inst[i].pc = "start"
    /\ \E o \in FetchOutcomes(obj.exists) :
         LET r == [inst[i] EXCEPT !.got = o, !.found = o = "ok" /\ obj.exists]
         IN IF o = "error" THEN Return(i, r, "error")
            ELSE IF o = "ok" THEN Return(i, r, "exists")
            ELSE Goto(i, r, "vault") /\ UNCHANGED locks
    /\ UNCHANGED <<family, profiles, hub, nic, subnet, obj>>

\* 353-363 (Create) and 463-472 (Update, when the key has changed): the key's
\* vault is fetched and validated
resourceDiskEncryptionSet_RetrieveKeyVault(i) ==
    /\ IsDiskEncryptionSet(i)
    /\ \/ inst[i].op = "create" /\ inst[i].pc = "vault"
       \/ inst[i].op = "update" /\ inst[i].pc = "start" /\ inst[i].changed
    /\ \E o \in FetchOutcomes(TRUE) :
         LET keyVaultDetails == diskEncryptionSetRetrieveKeyVault(obj.vaults, inst[i].key, o)
         IN IF KeyVaultRefused(keyVaultDetails) THEN Return(i, inst[i], "error")
            ELSE /\ Goto(i, [inst[i] EXCEPT !.aux = keyVaultDetails.keyVaultId], "put")
                 /\ UNCHANGED locks
    /\ UNCHANGED <<family, profiles, hub, nic, subnet, obj>>

\* 383-386 (CreateOrUpdate) and 483-486 (Update): the one request, with the
\* active key when it carries one
resourceDiskEncryptionSet_Put(i) ==
    /\ IsDiskEncryptionSet(i)
    /\ \/ inst[i].op \in {"create", "update"} /\ inst[i].pc = "put"
       \/ inst[i].op = "update" /\ inst[i].pc = "start" /\ ~inst[i].changed
    /\ \E o \in IF inst[i].op = "update" /\ ~obj.exists THEN {"error"} ELSE SubmitOutcomes :
         IF o = "error" THEN Return(i, [inst[i] EXCEPT !.subs = @ + 1], "error")
         ELSE /\ Goto(i, [inst[i] EXCEPT !.subs = @ + 1], "wait")
              /\ UNCHANGED locks
    /\ UNCHANGED <<family, profiles, hub, nic, subnet, obj>>

\* 387-389, 487-489: an Update without a key leaves the active key as it is
resourceDiskEncryptionSet_Wait(i) ==
    /\ IsDiskEncryptionSet(i) /\ inst[i].op \in {"create", "update"} /\ inst[i].pc = "wait"
    /\ \E o \in WaitOutcomes :
         /\ obj' = IF o = "failed" THEN obj
                   ELSE [obj EXCEPT !.exists = TRUE, !.by = i,
                                    !.key = IF CarriesKey(inst[i]) THEN inst[i].key ELSE @]
         /\ IF o # "succeeded" THEN Return(i, inst[i], "error")
            ELSE Goto(i, inst[i], IF inst[i].op = "create" THEN "get_id" ELSE "read")
                 /\ UNCHANGED locks
    /\ UNCHANGED <<family, profiles, hub, nic, subnet>>

\* 391-398
resourceDiskEncryptionSetCreate_GetId(i) ==
    /\ IsDiskEncryptionSet(i) /\ inst[i].op = "create" /\ inst[i].pc = "get_id"
    /\ \E o \in FetchOutcomes(obj.exists) :
         IF o # "ok" THEN Return(i, inst[i], "error")
         ELSE /\ Goto(i, [inst[i] EXCEPT !.id = ObjId], "read")
              /\ UNCHANGED locks
    /\ UNCHANGED <<family, profiles, hub, nic, subnet, obj>>

\* 403-441
resourceDiskEncryptionSetRead(i) ==
    /\ IsDiskEncryptionSet(i)
    /\ \/ inst[i].op = "read" /\ inst[i].pc = "start"
       \/ inst[i].op \in {"create", "update"} /\ inst[i].pc = "read"
    /\ \E o \in FetchOutcomes(obj.exists) :
         LET r == [inst[i] EXCEPT !.rgot = o]
         IN IF o = "notfound" THEN Return(i, [r EXCEPT !.id = NoId], "ok")
            ELSE IF o # "ok" THEN Return(i, r, "error")
            ELSE Return(i, [r EXCEPT !.rfound = TRUE], "ok")
    /\ UNCHANGED <<family, profiles, hub, nic, subnet, obj>>

(* ------------- backup protection container (storage account) ----------- *)

\* part_002 206-212: the poll parameters, in seconds
MinTimeout == 10
Delay == 10
ContinuousTargetOccurence == 5

IsBackupContainer(i) == inst[i].kind = "backupcontainer"

\* what one request to the operation status endpoint can answer: a status without
\* error body ("InProgress", "Succeeded", "Canceled"), a status with an error body
\* carrying the remote message ("Failed"), or a failed request ("error")
StatusOutcomes == {"InProgress", "Succeeded", "Canceled", "Failed", "error"}

\* a refresh function that passes on the status and drops the error body
CheckOperationWithoutErrorBody(o) ==
    [result |-> o,
     state |-> IF o = "error" THEN "Error" ELSE o,
     err |-> IF o = "error" THEN "error" ELSE "none"]

\* part_002 229-246: the refresh function's (result, state, error)
resourceBackupProtectionContainerStorageAccountCheckOperation(o) ==
    [result |-> o,
     state |-> IF o = "error" THEN "Error" ELSE o,
     err |-> IF o = "error" THEN "error"
             ELSE IF o = "Failed" THEN "remote_failure" ELSE "none"]

\* one refresh of a wait that takes the first sight of the target state as the end
WaitForStateContext_FirstTarget(c, occ) ==
    IF c.err # "none"
    THEN [done |-> TRUE, result |-> c.result, err |-> c.err, occ |-> occ]
    ELSE IF c.state = "Succeeded"
    THEN [done |-> TRUE, result |-> c.result, err |-> "none", occ |-> occ + 1]
    ELSE IF c.state = "InProgress"
    THEN [done |-> FALSE, result |-> c.result, err |-> "none", occ |-> 0]
    ELSE [done |-> TRUE, result |-> c.result, err |-> "unexpected_state", occ |-> occ]

\* StateChangeConf.WaitForStateContext, one refresh: an error ends the wait, the
\* target state ends it once seen ContinuousTargetOccurence times in a row, a
\* pending state continues it, any other state ends it as unexpected
WaitForStateContext_Refresh(c, occ) ==
    IF c.err # "none"
    THEN [done |-> TRUE, result |-> c.result, err |-> c.err, occ |-> occ]
    ELSE IF c.state = "Succeeded"
    THEN [done |-> occ + 1 = ContinuousTargetOccurence, result |-> c.result,
          err |-> "none", occ |-> occ + 1]
    ELSE IF c.state = "InProgress"
    THEN [done |-> FALSE, result |-> c.result, err |-> "none", occ |-> 0]
    ELSE [done |-> TRUE, result |-> c.result, err |-> "unexpected_state", occ |-> occ]

\* StateChangeConf.WaitForStateContext when its Timeout or the context's deadline
\* passes first: no result, and the timeout resp. the context's error
WaitForStateContext_Timeout(limit, ctx) ==
    [done |-> TRUE, result |-> "nil",
     err |-> IF limit <= ctx THEN "timeout" ELSE "deadline_exceeded", occ |-> 0]

\* part_002 214-218: the poll timeout is the create timeout for a new resource and
\* the update timeout otherwise
StateTimeout(r) == IF r.op = "create" THEN r.timeouts.create ELSE r.timeouts.update

\* part_002 222-226: the result is type-asserted to backup.OperationStatus on both
\* paths, which panics when the wait handed back no result
resourceBackupProtectionContainerStorageAccountWaitForOperation(w) ==
    IF w.result = "nil" THEN "panic"
    ELSE IF w.err # "none" THEN w.err
    ELSE "ok"

\* the moment the wait ends without a further refresh
Deadline(r) == IF r.limit <= r.ctx THEN r.limit ELSE r.ctx

\* a handler starts under a context of the given timeout
WithContext(r, timeout) ==
    [r EXCEPT !.ctx = timeout, !.limit = 0, !.now = 0, !.next = 0, !.polls = 0,
              !.occ = 0, !.last = "none"]

\* part_002 54-86: Create runs under timeouts.ForRead, then checks for an existing
\* container
resourceBackupProtectionContainerStorageAccountCreate_Check(i) ==
    /\ IsBackupContainer(i) /\ inst[i].op = "create" /\ inst[i].pc = "start"
    /\ \E o \in FetchOutcomes(obj.exists) :
         LET r == [WithContext(inst[i], inst[i].timeouts.read)
                      EXCEPT !.got = o, !.found = o = "ok" /\ obj.exists]
         IN IF o = "error" THEN Return(i, r, "error")
            ELSE IF o = "ok" THEN Return(i, r, "exists")
            ELSE Goto(i, r, "put") /\ UNCHANGED locks
    /\ UNCHANGED <<family, profiles, hub, nic, subnet, obj>>

\* part_002 97-114: the registration is submitted, then the wait starts
resourceBackupProtectionContainerStorageAccountCreate_Register(i) ==
    /\ IsBackupContainer(i) /\ inst[i].op = "create" /\ inst[i].pc = "put"
    /\ \E o \in SubmitOutcomes :
         IF o = "error" THEN Return(i, [inst[i] EXCEPT !.subs = @ + 1], "error")
         ELSE /\ Goto(i, [inst[i] EXCEPT !.subs = @ + 1, !.limit = StateTimeout(inst[i]),
                                         !.next = Delay], "poll")
              /\ UNCHANGED locks
    /\ UNCHANGED <<family, profiles, hub, nic, subnet, obj>>

\* part_002 205-227: one status request of the wait, of Create or of Delete
resourceBackupProtectionContainerStorageAccountWaitForOperation_Refresh(i) ==
    /\ IsBackupContainer(i) /\ inst[i].pc = "poll"
    /\ inst[i].next <= Deadline(inst[i])
    /\ \E o \in StatusOutcomes :
         LET w == WaitForStateContext_Refresh(
                      resourceBackupProtectionContainerStorageAccountCheckOperation(o),
                      inst[i].occ)
             r == [inst[i] EXCEPT !.now = inst[i].next, !.next = inst[i].next + MinTimeout,
                                  !.polls = @ + 1, !.occ = w.occ, !.last = o]
             res == resourceBackupProtectionContainerStorageAccountWaitForOperation(w)
         IN /\ obj' = IF o # "Succeeded" THEN obj
                      ELSE IF r.op = "create" THEN Created(i) ELSE Deleted
            /\ IF ~w.done THEN Goto(i, r, "poll") /\ UNCHANGED locks
               ELSE IF res # "ok" THEN Return(i, r, res)
               ELSE IF r.op = "create" THEN Goto(i, r, "get_id") /\ UNCHANGED locks
               ELSE Return(i, Removed(r), "ok")
    /\ UNCHANGED <<family, profiles, hub, nic, subnet>>

\* part_002 205-227: the wait ends because its timeout or the context's deadline
\* has passed
resourceBackupProtectionContainerStorageAccountWaitForOperation_Timeout(i) ==
    /\ IsBackupContainer(i) /\ inst[i].pc = "poll"
    /\ Deadline(inst[i]) <= inst[i].next
    /\ LET w == WaitForStateContext_Timeout(inst[i].limit, inst[i].ctx)
           r == [inst[i] EXCEPT !.now = Deadline(inst[i]), !.last = w.err]
       IN Return(i, r, resourceBackupProtectionContainerStorageAccountWaitForOperation(w))
    /\ UNCHANGED <<family, profiles, hub, nic, subnet, obj>>

\* part_002 116-123: the container is fetched for its ID
resourceBackupProtectionContainerStorageAccountCreate_GetId(i) ==
    /\ IsBackupContainer(i) /\ inst[i].op = "create" /\ inst[i].pc = "get_id"
    /\ \E o \in FetchOutcomes(obj.exists) :
         IF o # "ok" THEN Return(i, inst[i], "error")
         ELSE /\ Goto(i, [inst[i] EXCEPT !.id = ObjId], "read")
              /\ UNCHANGED locks
    /\ UNCHANGED <<family, profiles, hub, nic, subnet, obj>>

\* part_002 129-161
resourceBackupProtectionContainerStorageAccountRead(i) ==
    /\ IsBackupContainer(i)
    /\ \/ inst[i].op = "read" /\ inst[i].pc = "start"
       \/ inst[i].op = "create" /\ inst[i].pc = "read"
    /\ \E o \in FetchOutcomes(obj.exists) :
         LET r == [inst[i] EXCEPT !.rgot = o]
         IN IF o = "notfound" THEN Return(i, [r EXCEPT !.id = NoId], "ok")
            ELSE IF o # "ok" THEN Return(i, r, "error")
            ELSE Return(i, [r EXCEPT !.rfound = TRUE], "ok")
    /\ UNCHANGED <<family, profiles, hub, nic, subnet, obj>>

\* part_002 163-199: Delete runs under timeouts.ForDelete, submits the
\* unregistration and starts the wait
resourceBackupProtectionContainerStorageAccountDelete_Unregister(i) ==
    /\ IsBackupContainer(i) /\ inst[i].op = "delete" /\ inst[i].pc = "start"
    /\ \E o \in DeleteOutcomes(obj.exists) :
         LET r == [WithContext(inst[i], inst[i].timeouts.delete)
                      EXCEPT !.got = o, !.subs = @ + 1]
         IN IF o # "accepted" THEN Return(i, r, "error")
            ELSE /\ Goto(i, [r EXCEPT !.limit = StateTimeout(r), !.next = Delay], "poll")
                 /\ UNCHANGED locks
    /\ UNCHANGED <<family, profiles, hub, nic, subnet, obj>>

(* ------- IoT DPS certificate, Data Factory managed integration runtime ---- *)

\* iothub_dps_certificate_resource.go 127-131: name, resource_group_name and
\* iot_dps_name are set; certificate_content is not returned and not set
DPSCertificateFlatten(remote, attrs) == [attrs EXCEPT !.props = remote.by]

\* part_006 435-454: catalog_info is built from the remote properties, and
\* administrator_password is taken from the local data when it is set there
flattenDataFactoryIntegrationRuntimeManagedSsisCatalogInfo(remote, attrs) ==
    [props |-> remote.by, secret |-> attrs.secret]

\* iothub_dps_certificate_resource.go 106-134
resourceIotHubDPSCertificateRead(i) ==
    /\ inst[i].kind = "dpscert" /\ inst[i].op = "read" /\ inst[i].pc = "start"
    /\ \E o \in FetchOutcomes(obj.exists) :
         LET r == Seen([inst[i] EXCEPT !.rgot = o], obj)
         IN IF o = "notfound" THEN Return(i, [r EXCEPT !.id = NoId], "ok")
            ELSE IF o # "ok" THEN Return(i, r, "error")
            ELSE Return(i, [r EXCEPT !.rfound = TRUE,
                                     !.attrs = DPSCertificateFlatten(obj, r.attrs)], "ok")
    /\ UNCHANGED <<family, profiles, hub, nic, subnet, obj, locks>>

\* part_006 262-334
resourceDataFactoryIntegrationRuntimeManagedRead(i) ==
    /\ inst[i].kind = "irmanaged" /\ inst[i].op = "read" /\ inst[i].pc = "start"
    /\ \E o \in FetchOutcomes(obj.exists) :
         LET r == Seen([inst[i] EXCEPT !.rgot = o], obj)
         IN IF o = "notfound" THEN Return(i, [r EXCEPT !.id = NoId], "ok")
            ELSE IF o # "ok" THEN Return(i, r, "error")
            ELSE Return(i, [r EXCEPT !.rfound = TRUE,
                                     !.attrs =
                                        flattenDataFactoryIntegrationRuntimeManagedSsisCatalogInfo(
                                            obj, r.attrs)], "ok")
    /\ UNCHANGED <<family, profiles, hub, nic, subnet, obj, locks>>

(* --------------------------- network profile --------------------------- *)

ProfileKey(name) == <<"network_profile", name>>
ProfileId(name) == <<"networkProfiles", name>>

\* utils.SliceContainsValue
SliceContainsValue(q, v) == \E k \in 1..Len(q) : q[k] = v

\* network_profile_resource.go 290-322: the subnet names and the virtual network
\* names of the configured subnet IDs, each once, in the order of the configuration
RECURSIVE SubnetNames(_)
SubnetNames(cfg) ==
    IF cfg = <<>> THEN <<>>
    ELSE LET front == SubnetNames(SubSeq(cfg, 1, Len(cfg) - 1))
             n == cfg[Len(cfg)][2]
         IN IF SliceContainsValue(front, n) THEN front ELSE Append(front, n)

RECURSIVE VnetNames(_)
VnetNames(cfg) ==
    IF cfg = <<>> THEN <<>>
    ELSE LET front == VnetNames(SubSeq(cfg, 1, Len(cfg) - 1))
             n == cfg[Len(cfg)][1]
         IN IF SliceContainsValue(front, n) THEN front ELSE Append(front, n)

expandNetworkProfileVirtualNetworkSubnetNames(cfg) ==
    [subnetsToLock |-> SubnetNames(cfg), vnetsToLock |-> VnetNames(cfg)]

\* locks.MultipleByName: the names are locked one after the other, in the order given
MultipleByName(names, kind) == [k \in 1..Len(names) |-> <<kind, names[k]>>]

\* the locks of a handler with the subnets and virtual networks ahead of the profile
ProfileLocksTargetLast(name, cfg) ==
    LET x == expandNetworkProfileVirtualNetworkSubnetNames(cfg)
    IN MultipleByName(x.vnetsToLock, "virtual_network")
           \o MultipleByName(x.subnetsToLock, "subnet") \o <<ProfileKey(name)>>

\* network_profile_resource.go 127-134, 235-242: the locks a handler takes, in order
ProfileLocks(name, cfg) ==
    LET x == expandNetworkProfileVirtualNetworkSubnetNames(cfg)
    IN <<ProfileKey(name)>> \o MultipleByName(x.vnetsToLock, "virtual_network")
                            \o MultipleByName(x.subnetsToLock, "subnet")

IsProfile(i) == inst[i].kind = "profile"

\* 96-125: the existence check of a new resource, before any lock
resourceNetworkProfileCreateUpdate_Check(i) ==
    /\ IsProfile(i) /\ inst[i].op \in {"create", "update"} /\ inst[i].pc = "start"
    /\ \E o \in IF inst[i].op = "create" THEN FetchOutcomes(profiles[inst[i].name])
                ELSE {"skipped"} :
         LET r == [inst[i] EXCEPT !.got = o, !.found = o = "ok",
                                  !.todo = ProfileLocks(inst[i].name, inst[i].cfg)]
         IN IF o = "error" THEN Return(i, [r EXCEPT !.todo = <<>>], "error")
            ELSE IF o = "ok" THEN Return(i, [r EXCEPT !.todo = <<>>], "exists")
            ELSE Goto(i, r, "lock") /\ UNCHANGED locks
    /\ UNCHANGED <<family, profiles, hub, nic, subnet, obj>>

\* 127-134 (CreateUpdate) and 235-242 (Delete): the next lock is taken
resourceNetworkProfile_Lock(i) ==
    /\ IsProfile(i) /\ inst[i].pc = "lock"
    /\ CanLock(Head(inst[i].todo))
    /\ locks' = Locked(Head(inst[i].todo), i)
    /\ Goto(i, [inst[i] EXCEPT !.todo = Tail(@)],
            IF Len(inst[i].todo) = 1 THEN "put" ELSE "lock")
    /\ UNCHANGED <<family, profiles, hub, nic, subnet, obj>>

\* 136-146
resourceNetworkProfileCreateUpdate_Put(i) ==
    /\ IsProfile(i) /\ inst[i].op \in {"create", "update"} /\ inst[i].pc = "put"
    /\ \E o \in SubmitOutcomes :
         IF o = "error" THEN Return(i, [inst[i] EXCEPT !.subs = @ + 1], "error") /\ UNCHANGED profiles
         ELSE /\ profiles' = [profiles EXCEPT ![inst[i].name] = TRUE]
              /\ Goto(i, [inst[i] EXCEPT !.subs = @ + 1], "get_id")
              /\ UNCHANGED locks
    /\ UNCHANGED <<family, hub, nic, subnet, obj>>

\* 148-157
resourceNetworkProfileCreateUpdate_GetId(i) ==
    /\ IsProfile(i) /\ inst[i].op \in {"create", "update"} /\ inst[i].pc = "get_id"
    /\ \E o \in FetchOutcomes(profiles[inst[i].name]) :
         IF o # "ok" THEN Return(i, inst[i], "error")
         ELSE /\ Goto(i, [inst[i] EXCEPT !.id = ProfileId(inst[i].name)], "read")
              /\ UNCHANGED locks
    /\ UNCHANGED <<family, profiles, hub, nic, subnet, obj>>

\* 162-204
resourceNetworkProfileRead(i) ==
    /\ IsProfile(i)
    /\ \/ inst[i].op = "read" /\ inst[i].pc = "start"
       \/ inst[i].op \in {"create", "update"} /\ inst[i].pc = "read"
    /\ \E o \in FetchOutcomes(profiles[inst[i].id[2]]) :
         LET r == [inst[i] EXCEPT !.rgot = o]
         IN IF o = "notfound" THEN Return(i, [r EXCEPT !.id = NoId], "ok")
            ELSE IF o # "ok" THEN Return(i, r, "error")
            ELSE Return(i, [r EXCEPT !.rfound = TRUE], "ok")
    /\ UNCHANGED <<family, profiles, hub, nic, subnet, obj>>

\* 206-233: Delete first fetches the profile, before any lock
resourceNetworkProfileDelete_Get(i) ==
    /\ IsProfile(i) /\ inst[i].op = "delete" /\ inst[i].pc = "start"
    /\ \E o \in FetchOutcomes(profiles[inst[i].id[2]]) :
         LET r == [inst[i] EXCEPT !.got = o]
         IN IF o = "notfound" THEN Return(i, Removed(r), "ok")
            ELSE IF o # "ok" THEN Return(i, r, "error")
            ELSE /\ Goto(i, [r EXCEPT !.todo = ProfileLocks(r.id[2], r.cfg)], "lock")
                 /\ UNCHANGED locks
    /\ UNCHANGED <<family, profiles, hub, nic, subnet, obj>>

\* 244-248
resourceNetworkProfileDelete_Delete(i) ==
    /\ IsProfile(i) /\ inst[i].op = "delete" /\ inst[i].pc = "put"
    /\ \E o \in DeleteOutcomes(profiles[inst[i].id[2]]) :
         LET r == [inst[i] EXCEPT !.subs = @ + 1]
         IN IF o # "accepted" THEN Return(i, r, "error") /\ UNCHANGED profiles
            ELSE /\ profiles' = [profiles EXCEPT ![r.id[2]] = FALSE]
                 /\ Return(i, Removed(r), "ok")
    /\ UNCHANGED <<family, hub, nic, subnet, obj>>

(* -------------------------------- host --------------------------------- *)

\* resource types whose schema leaves an attribute updatable register an Update
HasUpdate(kind) == kind \in {"route", "endpoint", "sqlpool", "vmssext", "profile", "des"}

\* the lifecycle methods modelled for each resource type
Handlers(kind) ==
    IF kind = "none" THEN {}
    ELSE IF kind \in {"rg", "srcontainer"} THEN {"delete"}
    ELSE IF kind \in {"dpscert", "irmanaged"} THEN {"read"}
    ELSE IF kind = "backupcontainer" THEN {"create", "read", "delete"}
    ELSE {"create", "read", "delete"} \cup (IF HasUpdate(kind) THEN {"update"} ELSE {})

\* The host runs one lifecycle method at a time per instance: Create while the
\* instance has no identifier, Read / Update / Delete while it has one.
HostCreate(i) ==
    /\ Idle(i) /\ inst[i].id = NoId
    /\ "create" \in Handlers(inst[i].kind)
    /\ inst' = [inst EXCEPT ![i] = Begin(inst[i], "create", "start")]
    /\ UNCHANGED <<family, profiles, hub, nic, subnet, obj, locks>>

HostRead(i) ==
    /\ Idle(i) /\ inst[i].id # NoId
    /\ "read" \in Handlers(inst[i].kind)
    /\ inst' = [inst EXCEPT ![i] = Begin(inst[i], "read", "start")]
    /\ UNCHANGED <<family, profiles, hub, nic, subnet, obj, locks>>

HostUpdate(i) ==
    /\ Idle(i) /\ inst[i].id # NoId
    /\ "update" \in Handlers(inst[i].kind)
    /\ inst' = [inst EXCEPT ![i] = Begin(inst[i], "update", "start")]
    /\ UNCHANGED <<family, profiles, hub, nic, subnet, obj, locks>>

HostDelete(i) ==
    /\ Idle(i) /\ inst[i].id # NoId
    /\ "delete" \in Handlers(inst[i].kind)
    /\ inst' = [inst EXCEPT ![i] = Begin(inst[i], "delete", "start")]
    /\ UNCHANGED <<family, profiles, hub, nic, subnet, obj, locks>>

(* ----------------------------- initial states -------------------------- *)

\* sequences of at most n distinct entries of S, no two with names equal ignoring case
Lists(S, n) ==
    {q \in UNION {[1..k -> S] : k \in 0..n} :
        \A a, b \in 1..Len(q) : a # b => ~EqualFold(q[a].name, q[b].name)}

Sibling(name) == [name |-> name, by |-> 0]

NoHub == [exists |-> FALSE, routing |-> FALSE, routes |-> <<>>, endpoints |-> <<>>]
NoNic == [exists |-> FALSE, ipcfg |-> FALSE, pools |-> <<>>]
NoSubnet == [exists |-> FALSE, nat |-> "none"]
NoProfiles == [n \in {"np1", "np2"} |-> FALSE]
NoObj == [exists |-> FALSE, parent |-> FALSE, by |-> 0]

\* an instance before its first handler runs; `present` says whether an earlier
\* run (or an import) left it with an identifier
NewInst(kind, name, id) ==
    [kind |-> kind, name |-> name, id |-> id, op |-> "none", pc |-> "idle",
     res |-> "none", subs |-> 0, got |-> "none", found |-> FALSE,
     rgot |-> "none", rfound |-> FALSE, snap |-> NoSnap, base |-> NoSnap, aux |-> "none"]

HubStates ==
    {NoHub, [NoHub EXCEPT !.exists = TRUE]} \cup
    {[exists |-> TRUE, routing |-> TRUE, routes |-> rs, endpoints |-> es] :
        rs \in Lists({Sibling("s1"), Sibling(NoName), Sibling("r1"), Sibling("r2")}, MaxLen),
        es \in Lists({Sibling("e0"), Sibling("e1")}, MaxLen - 1)}

\* iothub_route_resource.go 38-45: the route's `name` is not ForceNew, so the
\* configuration of a route created as r1 can come to name it s1 and the host
\* then calls Update; every other resource type's name forces a new resource
RenamedRoute == NewInst("route", "s1", RouteId("r1"))

HubInsts ==
    {[j \in Inst |-> IF j = 1 THEN a ELSE b] :
        a \in {NewInst("route", "r1", id) : id \in {NoId, RouteId("r1")}},
        b \in UNION {{NewInst("route", n, id) : id \in {NoId, RouteId(n)}} :
                        n \in {"r2", "R1"}}
              \cup {NewInst("endpoint", "e1", id) : id \in {NoId, EndpointId("e1")}}}
    \cup {[j \in Inst |-> IF j = 1 THEN RenamedRoute ELSE NewInst("route", "r2", NoId)]}

InitHub ==
    /\ profiles = NoProfiles
    /\ family = "hub"
    /\ hub \in HubStates
    /\ inst \in HubInsts
    /\ nic = NoNic /\ subnet = NoSubnet /\ obj = NoObj

NicStates ==
    {NoNic, [NoNic EXCEPT !.exists = TRUE]} \cup
    {[exists |-> TRUE, ipcfg |-> TRUE, pools |-> ps] :
        ps \in Lists({Sibling("p0"), Sibling(NoName), Sibling("p1"), Sibling("p2")}, MaxLen)}

\* part_000 43-48: ip_configuration_name is any non-empty string, one that
\* holds a "|" included
IpConfigurationNames == {<<"ipconfig1">>, <<"ip", "|", "config1">>}

\* an identifier brought in by the pass-through importer, without a "|"
ImportedNicPoolId == NetworkInterfaceId \o <<"/ipConfigurations/">> \o <<"ipconfig1">>

NewNicInst(pool, ipc, id) ==
    [kind |-> "nicpool", name |-> pool, id |-> id, op |-> "none", pc |-> "idle",
     res |-> "none", subs |-> 0, got |-> "none", found |-> FALSE,
     rgot |-> "none", rfound |-> FALSE, snap |-> NoSnap, base |-> NoSnap, aux |-> "none",
     ipc |-> ipc]

NicInsts ==
    {[j \in Inst |-> IF j = 1 THEN a ELSE b] :
        a \in UNION {{NewNicInst("p1", c, id) : id \in {NoId, NicPoolId(c, "p1")}} :
                        c \in IpConfigurationNames}
              \cup {NewNicInst("p1", <<"ipconfig1">>, ImportedNicPoolId)},
        b \in UNION {{NewNicInst(n, <<"ipconfig1">>, id) :
                         id \in {NoId, NicPoolId(<<"ipconfig1">>, n)}} :
                        n \in {"p1", "p2"}}}

InitNic ==
    /\ profiles = NoProfiles
    /\ family = "nic"
    /\ nic \in NicStates
    /\ inst \in NicInsts
    /\ hub = NoHub /\ subnet = NoSubnet /\ obj = NoObj

SubnetStates ==
    {NoSubnet} \cup {[exists |-> TRUE, nat |-> g] : g \in {"none", "gw1", "gw2"}}

SubnetInsts ==
    {[j \in Inst |-> IF j = 1 THEN a ELSE b] :
        a \in {NewInst("natassoc", "gw1", id) : id \in {NoId, SubnetId}},
        b \in {NewInst("natassoc", g, id) : g \in {"gw1", "gw2"}, id \in {NoId, SubnetId}}}

InitSubnet ==
    /\ profiles = NoProfiles
    /\ family = "subnet"
    /\ subnet \in SubnetStates
    /\ inst \in SubnetInsts
    /\ hub = NoHub /\ nic = NoNic /\ obj = NoObj

\* the object's container (the SQL server, the scale set, ...) may be gone too
ObjStates ==
    {NoObj, [NoObj EXCEPT !.parent = TRUE], [exists |-> TRUE, parent |-> TRUE, by |-> 0]}

DirectInsts ==
    UNION {{[j \in Inst |-> IF j = 1 THEN a ELSE b] :
                a \in {NewInst(kind, "obj1", id) : id \in {NoId, ObjId}},
                b \in {NewInst(kind, "obj1", id) : id \in {NoId, ObjId}}} :
           kind \in {"sqlpool", "vmssext", "rg", "srcontainer"}}

\* the timeouts block of a backup container's configuration, in seconds
BackupTimeouts ==
    {[create |-> 60, read |-> 60, update |-> 60, delete |-> 60],
     [create |-> 60, read |-> 1, update |-> 60, delete |-> 60],
     [create |-> 1, read |-> 60, update |-> 60, delete |-> 35],
     [create |-> 35, read |-> 60, update |-> 1, delete |-> 60]}

NewBackupInst(id, timeouts) ==
    [kind |-> "backupcontainer", name |-> "obj1", id |-> id, op |-> "none", pc |-> "idle",
     res |-> "none", subs |-> 0, got |-> "none", found |-> FALSE,
     rgot |-> "none", rfound |-> FALSE, snap |-> NoSnap, base |-> NoSnap, aux |-> "none",
     timeouts |-> timeouts, ctx |-> 0, limit |-> 0, now |-> 0, next |-> 0, polls |-> 0,
     occ |-> 0, last |-> "none"]

\* one backup container; the second instance slot stays unused in these runs
BackupInsts ==
    {[j \in Inst |-> IF j = 1 THEN a ELSE NewInst("none", "none", NoId)] :
        a \in {NewBackupInst(id, t) : id \in {NoId, ObjId}, t \in BackupTimeouts}}

InitBackup ==
    /\ profiles = NoProfiles
    /\ family = "backup"
    /\ obj \in {NoObj, [exists |-> TRUE, parent |-> TRUE, by |-> 0]}
    /\ inst \in BackupInsts
    /\ hub = NoHub /\ nic = NoNic /\ subnet = NoSubnet

\* the subnet IDs a network profile's configuration can name
ConfiguredSubnets == {<<"vnet1", "sub1">>, <<"vnet2", "sub2">>}

ProfileConfigs ==
    {q \in UNION {[1..k -> ConfiguredSubnets] : k \in 0..MaxLen} :
        \A a, b \in 1..Len(q) : a # b => q[a] # q[b]}

NewProfileInst(name, id, cfg) ==
    [kind |-> "profile", name |-> name, id |-> id, op |-> "none", pc |-> "idle",
     res |-> "none", subs |-> 0, got |-> "none", found |-> FALSE,
     rgot |-> "none", rfound |-> FALSE, snap |-> NoSnap, base |-> NoSnap, aux |-> "none",
     cfg |-> cfg, todo |-> <<>>]

\* two network profiles, or a network profile next to a NAT gateway association,
\* or two configurations of one network profile name
ProfileInsts ==
    {[j \in Inst |-> IF j = 1 THEN a ELSE b] :
        a \in {NewProfileInst("np1", id, c) :
                  id \in {NoId, ProfileId("np1")}, c \in ProfileConfigs},
        b \in {NewProfileInst("np2", id, c) :
                  id \in {NoId, ProfileId("np2")}, c \in ProfileConfigs}
              \cup {NewInst("natassoc", "gw1", id) : id \in {NoId, SubnetId}}}
    \cup {[j \in Inst |-> NewProfileInst("np1", NoId, <<<<"vnet1", "sub1">>>>)]}

InitProfile ==
    /\ family = "profile"
    /\ inst \in ProfileInsts
    /\ profiles \in [{"np1", "np2"} -> BOOLEAN]
    /\ subnet \in {[exists |-> TRUE, nat |-> g] : g \in {"none", "gw1"}}
    /\ hub = NoHub /\ nic = NoNic /\ obj = NoObj

\* the local attributes before the run: none (a fresh import) or those an
\* earlier run left
NoAttrs == [props |-> "none", secret |-> "none"]
PriorAttrs == [props |-> "old", secret |-> "pw"]

NewImportInst(kind, name, id, attrs) ==
    [kind |-> kind, name |-> name, id |-> id, op |-> "none", pc |-> "idle",
     res |-> "none", subs |-> 0, got |-> "none", found |-> FALSE,
     rgot |-> "none", rfound |-> FALSE, snap |-> NoSnap, base |-> NoSnap, aux |-> "none",
     attrs |-> attrs, seen |-> "none"]

\* two instances of one resource type that hold the same identifier, the first
\* left by an earlier run, the second freshly imported
ImportInsts ==
    {[j \in Inst |-> NewImportInst(t[1], t[2], t[3], IF j = 1 THEN PriorAttrs ELSE NoAttrs)] :
        t \in {<<"dpscert", "obj1", ObjId>>, <<"irmanaged", "obj1", ObjId>>,
               <<"route", "r1", RouteId("r1")>>}}

InitImport ==
    /\ family = "import"
    /\ inst \in ImportInsts
    /\ IF inst[1].kind = "route"
       THEN /\ hub \in {[exists |-> TRUE, routing |-> TRUE, routes |-> rs,
                         endpoints |-> <<>>] : rs \in {<<>>, <<Sibling("r1")>>}}
            /\ obj = NoObj
       ELSE /\ hub = NoHub
            /\ obj \in {NoObj, [exists |-> TRUE, parent |-> TRUE, by |-> 0]}
    /\ profiles = NoProfiles /\ nic = NoNic /\ subnet = NoSubnet

InitDirect ==
    /\ profiles = NoProfiles
    /\ family = "direct"
    /\ obj \in ObjStates
    /\ inst \in DirectInsts
    /\ hub = NoHub /\ nic = NoNic /\ subnet = NoSubnet

\* a key vault's properties; two vaults, the first in any condition
Vaults ==
    {[n \in {"v1", "v2"} |-> IF n = "v1" THEN a ELSE b] :
        a \in [softDelete : BOOLEAN, purgeProtection : BOOLEAN],
        b \in {[softDelete |-> TRUE, purgeProtection |-> TRUE],
               [softDelete |-> TRUE, purgeProtection |-> FALSE]}}

\* a disk encryption set's configuration names a key; `changed` is
\* d.HasChange("key_vault_key_id") of an Update
NewDiskEncryptionSetInst(id, key, changed) ==
    [kind |-> "des", name |-> "obj1", id |-> id, op |-> "none", pc |-> "idle",
     res |-> "none", subs |-> 0, got |-> "none", found |-> FALSE,
     rgot |-> "none", rfound |-> FALSE, snap |-> NoSnap, base |-> NoSnap, aux |-> "none",
     key |-> key, changed |-> changed]

\* two configurations of one disk encryption set; the second one holds the
\* identifier and leaves the key as it is
DiskEncryptionSetInsts ==
    {[j \in Inst |-> IF j = 1 THEN a ELSE NewDiskEncryptionSetInst(ObjId, "k2", FALSE)] :
        a \in {NewDiskEncryptionSetInst(id, key, changed) :
                  id \in {NoId, ObjId}, key \in {"k1", "k2"}, changed \in BOOLEAN}}

\* a disk encryption set that exists at the start got its key outside these runs
InitDiskEncryptionSet ==
    /\ family = "des"
    /\ inst \in DiskEncryptionSetInsts
    /\ \E e \in BOOLEAN, vs \in Vaults :
          obj = [exists |-> e, parent |-> TRUE, by |-> 0, key |-> "none", vaults |-> vs]
    /\ profiles = NoProfiles /\ hub = NoHub /\ nic = NoNic /\ subnet = NoSubnet

Init ==
    /\ locks = [k \in LockKeys |-> 0]
    /\ InitHub \/ InitNic \/ InitSubnet \/ InitDirect \/ InitBackup \/ InitProfile
       \/ InitImport \/ InitDiskEncryptionSet

Next ==
    \E i \in Inst :
        \/ HostCreate(i) \/ HostRead(i) \/ HostUpdate(i) \/ HostDelete(i)
        \/ resourceIotHubRouteCreateUpdate_Lock(i)
        \/ resourceIotHubRouteCreateUpdate_Get(i)
        \/ resourceIotHubRouteCreateUpdate_Put(i)
        \/ resourceIotHubRouteCreateUpdate_Wait(i)
        \/ resourceIotHubRouteRead(i)
        \/ resourceIotHubRouteDelete_Lock(i)
        \/ resourceIotHubRouteDelete_Get(i)
        \/ resourceIotHubRouteDelete_Put(i)
        \/ resourceIotHubRouteDelete_Wait(i)
        \/ resourceIotHubEndpointStorageContainerCreateUpdate_Lock(i)
        \/ resourceIotHubEndpointStorageContainerCreateUpdate_Get(i)
        \/ resourceIotHubEndpointStorageContainerCreateUpdate_Put(i)
        \/ resourceIotHubEndpointStorageContainerCreateUpdate_Wait(i)
        \/ resourceIotHubEndpointStorageContainerRead(i)
        \/ resourceIotHubEndpointStorageContainerDelete_Lock(i)
        \/ resourceIotHubEndpointStorageContainerDelete_Get(i)
        \/ resourceIotHubEndpointStorageContainerDelete_Put(i)
        \/ resourceIotHubEndpointStorageContainerDelete_Wait(i)
        \/ resourceNetworkInterfaceBackendAddressPoolAssociationCreate_Lock(i)
        \/ resourceNetworkInterfaceBackendAddressPoolAssociationCreate_Get(i)
        \/ resourceNetworkInterfaceBackendAddressPoolAssociationCreate_Put(i)
        \/ resourceNetworkInterfaceBackendAddressPoolAssociationCreate_Wait(i)
        \/ resourceNetworkInterfaceBackendAddressPoolAssociationRead(i)
        \/ resourceNetworkInterfaceBackendAddressPoolAssociationDelete_Lock(i)
        \/ resourceNetworkInterfaceBackendAddressPoolAssociationDelete_Get(i)
        \/ resourceNetworkInterfaceBackendAddressPoolAssociationDelete_Put(i)
        \/ resourceNetworkInterfaceBackendAddressPoolAssociationDelete_Wait(i)
        \/ resourceSubnetNatGatewayAssociationCreate_LockGateway(i)
        \/ resourceSubnetNatGatewayAssociationCreate_LockVnet(i)
        \/ resourceSubnetNatGatewayAssociationCreate_LockSubnet(i)
        \/ resourceSubnetNatGatewayAssociationCreate_Get(i)
        \/ resourceSubnetNatGatewayAssociationCreate_Put(i)
        \/ resourceSubnetNatGatewayAssociationCreate_Wait(i)
        \/ resourceSubnetNatGatewayAssociationCreate_GetId(i)
        \/ resourceSubnetNatGatewayAssociationRead(i)
        \/ resourceSubnetNatGatewayAssociationDelete_Get(i)
        \/ resourceSubnetNatGatewayAssociationDelete_LockGateway(i)
        \/ resourceSubnetNatGatewayAssociationDelete_LockVnet(i)
        \/ resourceSubnetNatGatewayAssociationDelete_GetLatest(i)
        \/ resourceSubnetNatGatewayAssociationDelete_Put(i)
        \/ resourceSubnetNatGatewayAssociationDelete_Wait(i)
        \/ resourceSqlElasticPoolCreateUpdate_Check(i)
        \/ resourceSqlElasticPoolCreateUpdate_Put(i)
        \/ resourceSqlElasticPoolCreateUpdate_Wait(i)
        \/ resourceSqlElasticPoolCreateUpdate_GetId(i)
        \/ resourceSqlElasticPoolRead(i)
        \/ resourceSqlElasticPoolDelete(i)
        \/ resourceVirtualMachineScaleSetExtensionCreate_Check(i)
        \/ resourceVirtualMachineScaleSetExtension_Put(i)
        \/ resourceVirtualMachineScaleSetExtension_Wait(i)
        \/ resourceVirtualMachineScaleSetExtensionCreate_GetId(i)
        \/ resourceVirtualMachineScaleSetExtensionRead(i)
        \/ resourceVirtualMachineScaleSetExtensionDelete(i)
        \/ resourceVirtualMachineScaleSetExtensionDelete_Wait(i)
        \/ resourceResourceGroupDelete(i)
        \/ resourceResourceGroupDelete_Wait(i)
        \/ resourceSiteRecoveryProtectionContainerDelete(i)
        \/ resourceSiteRecoveryProtectionContainerDelete_Wait(i)
        \/ resourceDiskEncryptionSetCreate_Check(i)
        \/ resourceDiskEncryptionSet_RetrieveKeyVault(i)
        \/ resourceDiskEncryptionSet_Put(i)
        \/ resourceDiskEncryptionSet_Wait(i)
        \/ resourceDiskEncryptionSetCreate_GetId(i)
        \/ resourceDiskEncryptionSetRead(i)
        \/ resourceDiskEncryptionSetDelete(i)
        \/ resourceDiskEncryptionSetDelete_Wait(i)
        \/ resourceIotHubDPSCertificateRead(i)
        \/ resourceDataFactoryIntegrationRuntimeManagedRead(i)
        \/ resourceNetworkProfileCreateUpdate_Check(i)
        \/ resourceNetworkProfile_Lock(i)
        \/ resourceNetworkProfileCreateUpdate_Put(i)
        \/ resourceNetworkProfileCreateUpdate_GetId(i)
        \/ resourceNetworkProfileRead(i)
        \/ resourceNetworkProfileDelete_Get(i)
        \/ resourceNetworkProfileDelete_Delete(i)
        \/ resourceBackupProtectionContainerStorageAccountCreate_Check(i)
        \/ resourceBackupProtectionContainerStorageAccountCreate_Register(i)
        \/ resourceBackupProtectionContainerStorageAccountWaitForOperation_Refresh(i)
        \/ resourceBackupProtectionContainerStorageAccountWaitForOperation_Timeout(i)
        \/ resourceBackupProtectionContainerStorageAccountCreate_GetId(i)
        \/ resourceBackupProtectionContainerStorageAccountRead(i)
        \/ resourceBackupProtectionContainerStorageAccountDelete_Unregister(i)

Spec == Init /\ [][Next]_vars

\* The backup protection container alone, for what its wait eventually does.
\* WaitForStateContext runs its refresh loop and its timer by itself once
\* started, so a wait that can take a step (the next status request is due,
\* or the timeout has passed) does take one.
PollerInit == locks = [k \in LockKeys |-> 0] /\ InitBackup

WaitForStateContext_Step ==
    \E i \in Inst :
        \/ resourceBackupProtectionContainerStorageAccountWaitForOperation_Refresh(i)
        \/ resourceBackupProtectionContainerStorageAccountWaitForOperation_Timeout(i)

PollerNext ==
    \/ \E i \in Inst :
          \/ HostCreate(i) \/ HostRead(i) \/ HostDelete(i)
          \/ resourceBackupProtectionContainerStorageAccountCreate_Check(i)
          \/ resourceBackupProtectionContainerStorageAccountCreate_Register(i)
          \/ resourceBackupProtectionContainerStorageAccountCreate_GetId(i)
          \/ resourceBackupProtectionContainerStorageAccountRead(i)
          \/ resourceBackupProtectionContainerStorageAccountDelete_Unregister(i)
    \/ WaitForStateContext_Step

PollerSpec == PollerInit /\ [][PollerNext]_vars /\ WF_vars(WaitForStateContext_Step)

(* ------------------------------ properties ----------------------------- *)

\* instance i is between handlers and the last one it ran was `op`
Finished(i, op) == inst[i].pc = "idle" /\ inst[i].op = op

\* resource types that model membership in a collection of a shared parent
InCollection(i) == inst[i].kind \in {"route", "endpoint", "nicpool"}
Membership(i) == InCollection(i) \/ inst[i].kind = "natassoc"

\* the parent the instances of this run share, and the collection of a parent
\* value p that instance i's resource type is a member of
Parent == IF family = "hub" THEN hub ELSE nic
Collection(i, p) ==
    IF inst[i].kind = "route" THEN p.routes
    ELSE IF inst[i].kind = "endpoint" THEN p.endpoints
    ELSE p.pools

Range(s) == {s[k] : k \in 1..Len(s)}

\* C1: when two Creates of distinct members of the same shared parent (two
\* routes, a route and an endpoint, two pool associations) have both returned
\* success, the parent's collections hold both new entries.
C1_NoLostUpdate ==
    \A i, j \in Inst :
        ( /\ i # j
          /\ InCollection(i) /\ InCollection(j)
          /\ Finished(i, "create") /\ inst[i].res = "ok"
          /\ Finished(j, "create") /\ inst[j].res = "ok"
          /\ (inst[i].kind # inst[j].kind \/ ~EqualFold(inst[i].name, inst[j].name)) )
        => /\ Holds(Collection(i, Parent), inst[i].name)
           /\ Holds(Collection(j, Parent), inst[j].name)

\* instance i is inside the section fetch parent / submit write / await
\* completion of a Create, Update or Delete on the shared parent
InSection(i) ==
    /\ Membership(i)
    /\ inst[i].op \in {"create", "update", "delete"}
    /\ inst[i].pc \in {"get", "put", "wait"}

\* C2: at most one Create / Update / Delete is inside the section fetch parent /
\* submit write / await completion on one shared parent (hub, interface, subnet).
C2_MutualExclusion ==
    \A i, j \in Inst : i # j => ~(InSection(i) /\ InSection(j))

\* one handler awaits completion while the other's handler waits for the lock
C2_Witness ==
    \E i, j \in Inst :
        /\ i # j
        /\ InSection(i) /\ inst[i].pc = "wait"
        /\ inst[j].kind = "route" /\ inst[j].op = "delete" /\ inst[j].pc = "start"
        /\ locks[HubKey] = i

\* C3: a Create whose existence check found a remote object of the same
\* identifier returns the conflict error, has submitted nothing and has set no
\* identifier.
C3_CreateConflict ==
    \A i \in Inst :
        (Finished(i, "create") /\ inst[i].found)
        => inst[i].res = "exists" /\ inst[i].subs = 0 /\ inst[i].id = NoId

\* a Create of an SQL elastic pool that exists returned the conflict error
C3_Witness ==
    \E i \in Inst :
        /\ inst[i].kind = "sqlpool" /\ Finished(i, "create") /\ inst[i].found
        /\ inst[i].res = "exists" /\ obj.exists

\* C4: a Read whose fetch was answered "not found" returns success with the
\* identifier cleared.
C4_ReadNotFoundClears ==
    \A i \in Inst :
        (inst[i].pc = "idle" /\ inst[i].rgot = "notfound")
        => inst[i].res = "ok" /\ inst[i].id = NoId

\* C5: a Read of a membership resource that found the parent but not the nested
\* element returns success with the identifier cleared.
C5_ReadElementAbsentClears ==
    \A i \in Inst :
        (Membership(i) /\ inst[i].pc = "idle" /\ inst[i].rgot = "ok" /\ ~inst[i].rfound)
        => inst[i].res = "ok" /\ inst[i].id = NoId

\* C6: the collection a membership Create submits holds every entry of the
\* fetched collection plus the new entry, and nothing else.
C6_CreatePreservesSiblings ==
    \A i \in Inst :
        (InCollection(i) /\ inst[i].op = "create" /\ inst[i].pc = "wait")
        => LET S == Collection(i, inst[i].base)
               T == Collection(i, inst[i].snap)
           IN /\ Len(T) = Len(S) + 1
              /\ Range(T) = Range(S) \cup {Entry(inst[i].name, i)}

\* entry e of the parent's collection is the one instance i's identifier names
IsTarget(i, e) ==
    IF inst[i].kind = "nicpool"
    THEN BackendAddressPoolId(e.name) = ParseNicPoolId(inst[i].id).backendAddressPoolId
    ELSE e.name = IdName(inst[i].id)

\* C7: the collection a membership Delete submits is the fetched collection
\* without the target, the other entries unchanged and in the same order.
C7_DeleteRemovesOnlyTarget ==
    \A i \in Inst :
        (InCollection(i) /\ inst[i].op = "delete" /\ inst[i].pc = "wait" /\ inst[i].found)
        => Collection(i, inst[i].snap) =
             SelectSeq(Collection(i, inst[i].base), LAMBDA e : ~IsTarget(i, e))

\* C8: a Delete of a directly deleted resource (SQL elastic pool, site recovery
\* protection container, disk encryption set, resource group) whose request was
\* answered "not found" returns success.
C8_DeleteIdempotent ==
    \A i \in Inst :
        ( /\ inst[i].kind \in {"sqlpool", "srcontainer", "des", "rg"}
          /\ Finished(i, "delete") /\ inst[i].got = "notfound" )
        => inst[i].res = "ok"

\* C9: a membership Delete whose parent fetch was answered "not found" returns
\* success and has submitted nothing.
C9_DeleteParentAbsent ==
    \A i \in Inst :
        (Membership(i) /\ Finished(i, "delete") /\ inst[i].got = "notfound")
        => inst[i].res = "ok" /\ inst[i].subs = 0

\* C10: a membership Create whose parent fetch was answered "not found" returns
\* the error naming the missing parent (not the conflict error), has submitted
\* nothing and has set no identifier.
C10_CreateParentMissing ==
    \A i \in Inst :
        (Membership(i) /\ Finished(i, "create") /\ inst[i].got = "notfound")
        => inst[i].res = "parent_not_found" /\ inst[i].subs = 0 /\ inst[i].id = NoId

\* a route Create on a hub that is gone returned the parent error
C10_Witness ==
    \E i \in Inst :
        /\ inst[i].kind = "route" /\ Finished(i, "create") /\ inst[i].got = "notfound"
        /\ inst[i].res = "parent_not_found" /\ ~hub.exists

C12_LocksReleased ==
    \A i \in Inst : Idle(i) => \A k \in LockKeys : locks[k] # i

\* a handler that had taken several locks returned a failure after its
\* submission, and every lock is free again
C12_Witness ==
    \E i \in Inst :
        /\ Idle(i) /\ inst[i].kind \in {"natassoc", "profile"}
        /\ inst[i].op \in {"create", "update", "delete"}
        /\ inst[i].res = "error" /\ inst[i].subs = 1
        /\ \A k \in LockKeys : locks[k] = 0

\* the lock keys instance i is about to acquire at its current position
Wants(i) ==
    IF inst[i].kind = "profile" /\ inst[i].pc = "lock" THEN {Head(inst[i].todo)}
    ELSE IF inst[i].kind # "natassoc" THEN {}
    ELSE IF inst[i].op = "create" /\ inst[i].pc = "start" THEN {GatewayKey(inst[i].name)}
    ELSE IF inst[i].pc = "lock_gateway" THEN {GatewayKey(inst[i].aux)}
    ELSE IF inst[i].pc = "lock_vnet" THEN {VnetKey}
    ELSE IF inst[i].pc = "lock_subnet" THEN {SubnetKey}
    ELSE {}

\* instance i waits for a lock that instance j holds
Blocked(i, j) == \E k \in Wants(i) : locks[k] = j

\* C13: concurrent Creates, Updates and Deletes of NAT gateway associations
\* and network profiles never reach a state in which each of two handlers
\* waits for a lock the other holds, whatever the order in which the profiles'
\* configurations list their subnets.
C13_NoDeadlock ==
    \A i, j \in Inst : i # j => ~(Blocked(i, j) /\ Blocked(j, i))

\* C14: the identifier is immutable: no step of an Update replaces the
\* identifier Create persisted by another one, and a route Update submits a
\* hub in which every route it fetched, other than the one its identifier
\* names, is kept as it was.
C14_IdentifierImmutable ==
    [][\A i \in Inst :
         (inst[i].op = "update" /\ inst[i].pc # "idle")
         => /\ inst'[i].id \in {inst[i].id, NoId}
            /\ (inst[i].kind = "route" /\ inst[i].pc = "wait") =>
                  \A e \in Range(Named(inst[i].base.routes)) :
                      ~EqualFold(e.name, IdName(inst[i].id))
                      => e \in Range(inst[i].snap.routes)]_vars

\* C15: the identifier a pool association's Create persisted decodes, the
\* way Read and Delete decode it, to the network interface, the IP
\* configuration name and the pool ID of the configuration it was built from.
C15_IdRoundTrip ==
    \A i \in Inst :
        ( /\ inst[i].kind = "nicpool" /\ inst[i].op = "create"
          /\ inst[i].id = NicPoolId(inst[i].ipc, inst[i].name) )
        => ParseNicPoolId(inst[i].id) =
              [err |-> FALSE, networkInterfaces |-> NetworkInterfaceId,
               ipConfigurations |-> inst[i].ipc,
               backendAddressPoolId |-> BackendAddressPoolId(inst[i].name)]

\* an identifier that does not split on "|" into exactly two parts
Malformed(id) == Len(Split(id, "|")) # 2

\* C20: a standalone Read or a Delete of a pool association whose identifier
\* is malformed returns a failure in its first step, with no interface
\* fetched, nothing submitted, no lock taken and the identifier kept.
C20_MalformedIdRejected ==
    [][\A i \in Inst :
         ( /\ inst[i].kind = "nicpool" /\ inst[i].op \in {"read", "delete"}
           /\ inst[i].pc = "start" /\ Malformed(inst[i].id)
           /\ inst'[i] # inst[i] )
         => /\ inst'[i].pc = "idle" /\ inst'[i].res = "error"
            /\ inst'[i].got = "none" /\ inst'[i].rgot = "none" /\ inst'[i].subs = 0
            /\ inst'[i].id = inst[i].id
            /\ locks' = locks /\ nic' = nic]_vars

\* a Delete of a malformed identifier has returned its failure while the other
\* instance holds the interface's lock
C20_Witness ==
    \E i, j \in Inst :
        /\ i # j /\ locks[NicKey] = j
        /\ Finished(i, "delete") /\ inst[i].kind = "nicpool" /\ Malformed(inst[i].id)
        /\ inst[i].res = "error"

\* C16: the status request of a wait that is answered with a failed status
\* carrying the remote error is the wait's last one: in that very step the
\* handler returns the remote failure, so no further status request follows.
C16_PollerFailure ==
    [][\A i \in Inst :
         ( /\ inst[i].kind = "backupcontainer" /\ inst[i].pc = "poll"
           /\ inst'[i].polls = inst[i].polls + 1 /\ inst'[i].last = "Failed" )
         => inst'[i].pc = "idle" /\ inst'[i].res = "remote_failure"]_vars

\* the third status request, 30 seconds in and right after a pending answer,
\* reported the failure
C16_Witness ==
    \E i \in Inst :
        /\ inst[i].kind = "backupcontainer" /\ inst[i].last = "Failed"
        /\ inst[i].polls = 3 /\ inst[i].occ = 0 /\ inst[i].now = Delay + 2 * MinTimeout
        /\ inst[i].pc = "idle" /\ inst[i].res = "remote_failure"

\* C17: the step in which a wait ends because its timeout or the context's
\* deadline has passed returns a timeout error, different from a remote
\* failure, at that very moment, without waiting for the next status request
\* to be due.
C17_PollerTimeout ==
    [][\A i \in Inst :
         ( /\ inst[i].kind = "backupcontainer" /\ inst[i].pc = "poll"
           /\ inst'[i].polls = inst[i].polls
           /\ inst'[i].last \in {"timeout", "deadline_exceeded"} )
         => /\ inst'[i].pc = "idle"
            /\ inst'[i].res \in {"timeout", "deadline_exceeded"}
            /\ inst'[i].now = Deadline(inst[i])]_vars

\* C18: Create runs under the create timeout and polls with it; Delete runs
\* under the delete timeout and polls the unregistration with it.
C18_OwnKindTimeout ==
    \A i \in Inst :
        (inst[i].kind = "backupcontainer" /\ inst[i].pc \in {"put", "poll", "get_id", "read"})
        => /\ inst[i].op = "create" => inst[i].ctx = inst[i].timeouts.create
           /\ (inst[i].op = "create" /\ inst[i].pc = "poll")
                 => inst[i].limit = inst[i].timeouts.create
           /\ inst[i].op = "delete" => inst[i].ctx = inst[i].timeouts.delete
           /\ (inst[i].op = "delete" /\ inst[i].pc = "poll")
                 => inst[i].limit = inst[i].timeouts.delete

\* C19: a Read (standalone, or the one that ends a Create or Update) whose
\* fetch fails with an error other than not-found returns a failure in that
\* step and leaves the identifier as it was.
C19_ReadErrorSurfaced ==
    [][\A i \in Inst :
         ( /\ (inst[i].op = "read" /\ inst[i].pc = "start") \/ inst[i].pc = "read"
           /\ inst[i].rgot = "none" /\ inst'[i].rgot = "error" )
         => /\ inst'[i].pc = "idle" /\ inst'[i].res = "error"
            /\ inst'[i].id = inst[i].id /\ inst'[i].id # NoId]_vars

C19_Witness ==
    \E i \in Inst :
        /\ Finished(i, "read") /\ inst[i].kind \in {"profile", "sqlpool", "natassoc"}
        /\ inst[i].rgot = "error" /\ inst[i].res = "error" /\ inst[i].id # NoId

\* C21: the local attributes a successful Read leaves are determined by the
\* identifier and the remote state: two instances of one resource type whose
\* Reads of the same identifier were answered from the same remote state hold
\* the same attributes, whatever they held before.
C21_ReadDeterminedByRemote ==
    \A i, j \in Inst :
        ( /\ HasAttrs(inst[i]) /\ HasAttrs(inst[j])
          /\ Finished(i, "read") /\ inst[i].res = "ok" /\ inst[i].id # NoId
          /\ Finished(j, "read") /\ inst[j].res = "ok" /\ inst[j].id = inst[i].id
          /\ inst[i].seen = inst[j].seen )
        => inst[i].attrs = inst[j].attrs

\* the named lock of the shared parent of instance i's resource type, and the
\* parent's current remote state
ParentKey(i) ==
    IF inst[i].kind \in {"route", "endpoint"} THEN HubKey
    ELSE IF inst[i].kind = "nicpool" THEN NicKey
    ELSE SubnetKey
ParentState(i) ==
    IF inst[i].kind \in {"route", "endpoint"} THEN hub
    ELSE IF inst[i].kind = "nicpool" THEN nic
    ELSE subnet

\* C22: while a write against a shared parent is built and submitted, the
\* handler holds the parent's named lock, and the snapshot the write was
\* computed from is the parent's current state: it was fetched under the lock.
C22_WriteFromLockedSnapshot ==
    \A i \in Inst :
        ( /\ Membership(i) /\ inst[i].op \in {"create", "update", "delete"}
          /\ inst[i].pc \in {"put", "wait"} )
        => /\ locks[ParentKey(i)] = i
           /\ inst[i].base = ParentState(i)

\* the step in which an Update of a route or an endpoint evaluates the hub it
\* fetched
UpdateEvaluates(i) ==
    /\ inst[i].kind \in {"route", "endpoint"} /\ inst[i].op = "update"
    /\ inst[i].pc = "get" /\ inst'[i].got = "ok"

\* C23: a membership Update (route, storage-container endpoint) submits the
\* fetched collection with exactly the one entry whose name matches replaced,
\* at the same position, every other entry unchanged; when no entry matches
\* it returns an error and submits no write.
C23_UpdateReplacesInPlace ==
    [][\A i \in Inst :
         UpdateEvaluates(i) =>
            LET S == Collection(i, hub)
                T == Collection(i, inst'[i].snap)
                hit == {k \in 1..Len(S) : S[k].name # NoName
                                          /\ EqualFold(S[k].name, inst[i].name)}
            IN IF hit = {}
               THEN /\ inst'[i].pc = "idle" /\ inst'[i].res # "ok"
                    /\ inst'[i].subs = 0
               ELSE /\ inst'[i].pc = "put"
                    /\ Cardinality(hit) = 1
                    /\ Len(T) = Len(S)
                    /\ \A k \in 1..Len(S) :
                          T[k] = IF k \in hit THEN Entry(inst[i].name, i) ELSE S[k]]_vars

\* instance i acquires lock k in this step
Acquires(i, k) == locks[k] # i /\ locks'[k] = i

\* the position of a lock's kind in the order the handlers follow: the target
\* resource (NAT gateway, network profile), the virtual network, the subnet
KindOrder(k) ==
    IF k[1] \in {"nat_gateway", "network_profile"} THEN 1
    ELSE IF k[1] = "virtual_network" THEN 2
    ELSE IF k[1] = "subnet" THEN 3
    ELSE 0

\* the order the specification names: virtual network, subnet, target resource
NamedKindOrder(k) ==
    IF k[1] = "virtual_network" THEN 1
    ELSE IF k[1] = "subnet" THEN 2
    ELSE IF k[1] \in {"nat_gateway", "network_profile"} THEN 3
    ELSE 0

\* C24 (as the code has it): every handler acquires its locks in one order of
\* kinds, the target resource (NAT gateway or network profile) first, then
\* the virtual network, then the subnet; Create, Update and Delete alike.
C24_LockKindOrder ==
    [][\A i \in Inst : \A k \in LockKeys :
         Acquires(i, k) =>
            \A h \in LockKeys : locks[h] = i => KindOrder(h) <= KindOrder(k)]_vars

\* a NAT association Create and a network profile handler each hold a lock of
\* every kind
C24_Witness ==
    \E i, j \in Inst :
        /\ inst[i].kind = "natassoc" /\ inst[i].op = "create"
        /\ \E gw \in {"gw1", "gw2"} : locks[GatewayKey(gw)] = i
        /\ locks[VnetKey] = i /\ locks[SubnetKey] = i
        /\ inst[j].kind = "profile" /\ inst[j].pc = "idle"
        /\ inst[j].op \in {"create", "delete"} /\ inst[j].res = "ok"

\* C24 (as stated): the virtual-network lock is acquired first, then the
\* subnet lock, then the target-resource lock.
C24_VnetSubnetTarget ==
    [][\A i \in Inst : \A k \in LockKeys :
         Acquires(i, k) =>
            \A h \in LockKeys : locks[h] = i => NamedKindOrder(h) <= NamedKindOrder(k)]_vars

\* C25: a Create that has returned success has left the identifier set, also
\* when the remote object was deleted between the submission and the Read
\* that ends Create.
C25_CreateLeavesPresent ==
    \A i \in Inst :
        (Finished(i, "create") /\ inst[i].res = "ok") => inst[i].id # NoId

\* the entries of instance i's member in the parent's collection
MemberEntries(i) ==
    LET S == Collection(i, ParentState(i))
    IN {k \in 1..Len(S) : S[k].name # NoName /\ EqualFold(S[k].name, inst[i].name)}

\* the entries of instance i's member in a parent value p
EntriesIn(i, p) ==
    LET S == Collection(i, p)
    IN {k \in 1..Len(S) : S[k].name # NoName /\ EqualFold(S[k].name, inst[i].name)}

\* C26: the duplicate check of a membership Create is atomic with its write,
\* whatever the other instance does meanwhile. A Create whose fetch shows the
\* member returns the conflict error and submits nothing; a Create that
\* passed the check writes to a parent that still lacks the member and holds
\* it once afterwards; a Create that returns success leaves the member held
\* exactly once. So of two concurrent Creates for one member one succeeds
\* and the other gets the conflict error.
C26_DuplicateCheckAtomic ==
    [][\A i \in Inst :
         (InCollection(i) /\ inst[i].op = "create") =>
            /\ (inst[i].pc = "get" /\ inst'[i].got = "ok" /\ MemberEntries(i) # {})
                 => /\ inst'[i].pc = "idle" /\ inst'[i].res = "exists"
                    /\ inst'[i].subs = 0
            /\ (inst[i].pc = "wait" /\ ParentState(i)' # ParentState(i))
                 => /\ MemberEntries(i) = {}
                    /\ Cardinality(EntriesIn(i, ParentState(i)')) = 1
            /\ (inst[i].pc # "idle" /\ inst'[i].pc = "idle" /\ inst'[i].res = "ok")
                 => Cardinality(MemberEntries(i)) = 1]_vars

\* C27: of two Creates for the same network profile name from different
\* instances at most one returns success.
C27_OneCreatePerName ==
    \A i, j \in Inst :
        ( /\ i # j /\ inst[i].kind = "profile" /\ inst[j].kind = "profile"
          /\ inst[i].name = inst[j].name
          /\ Finished(i, "create") /\ Finished(j, "create") )
        => ~(inst[i].res = "ok" /\ inst[j].res = "ok")

\* no two entries of s carry the same name, names compared ignoring case
NoDuplicates(s) ==
    \A a, b \in 1..Len(s) :
        (a # b /\ s[a].name # NoName /\ s[b].name # NoName)
        => ~EqualFold(s[a].name, s[b].name)

\* C28: a hub's route list never holds two routes whose names are equal
\* ignoring case, and an IP configuration's pool list never holds the same
\* pool ID twice, starting from a parent without duplicates.
C28_MemberUniqueness ==
    /\ NoDuplicates(hub.routes)
    /\ \A a, b \in 1..Len(nic.pools) :
          (a # b /\ nic.pools[a].name # NoName)
          => nic.pools[a].name # nic.pools[b].name

\* the hub holds a route a handler wrote, next to another one, and a Create
\* for the same name in another case was turned away; the interface holds a
\* pool a handler wrote and a Create for it was turned away
C28_Witness ==
    \/ \E i, j \in Inst :
          /\ i # j /\ inst[j].kind = "route"
          /\ Finished(j, "create") /\ inst[j].res = "exists"
          /\ Len(hub.routes) = 2
          /\ \E k \in 1..2 : /\ hub.routes[k].by = i
                              /\ hub.routes[k].name # inst[j].name
                              /\ EqualFold(hub.routes[k].name, inst[j].name)
    \/ \E i, j \in Inst :
          /\ i # j /\ inst[j].kind = "nicpool"
          /\ Finished(j, "create") /\ inst[j].res = "exists"
          /\ \E k \in 1..Len(nic.pools) : /\ nic.pools[k].by = i
                                           /\ nic.pools[k].name = inst[j].name

\* the collection of parent value p after the Delete of the member that
\* instance i's Create adds: Delete decodes the identifier Create persists
AfterDelete(i, p) ==
    IF inst[i].kind = "route" THEN RouteRemove(p, IdName(RouteId(inst[i].name))).routes
    ELSE IF inst[i].kind = "endpoint"
         THEN EndpointRemove(p, IdName(EndpointId(inst[i].name))).endpoints
    ELSE LET x == ParseNicPoolId(NicPoolId(inst[i].ipc, inst[i].name))
         IN IF x.err THEN p.pools ELSE NicPoolRemove(p, x.backendAddressPoolId)

\* C29: Create followed by Delete of the same member is a round trip on the
\* parent: deleting the member from the collection Create submits gives the
\* collection Create fetched, same entries in the same order.
C29_CreateDeleteRoundTrip ==
    \A i \in Inst :
        (InCollection(i) /\ inst[i].op = "create" /\ inst[i].pc = "wait")
        => AfterDelete(i, inst[i].snap) = Collection(i, inst[i].base)

\* the entries of a collection that carry no identity (name / ID unset)
Unnamed(s) == SelectSeq(s, LAMBDA e : e.name = NoName)

\* C30: the collection a membership Create, Update or Delete submits retains,
\* unchanged, every entry of the fetched collection that has no identity.
C30_UnnamedSiblingsRetained ==
    \A i \in Inst :
        ( /\ InCollection(i) /\ inst[i].op \in {"create", "update", "delete"}
          /\ inst[i].pc = "wait" )
        => Unnamed(Collection(i, inst[i].snap)) = Unnamed(Collection(i, inst[i].base))

\* the member instance i's identifier names is not in the parent's collection
MemberAbsent(i) ==
    IF inst[i].kind = "natassoc" THEN subnet.nat = "none"
    ELSE \A k \in 1..Len(Collection(i, ParentState(i))) :
            LET e == Collection(i, ParentState(i))[k]
            IN e.name = NoName
               \/ IF inst[i].kind = "nicpool" THEN ~IsTarget(i, e)
                  ELSE ~EqualFold(e.name, IdName(inst[i].id))

\* the step in which a membership Delete evaluates the parent it fetched
DeleteEvaluates(i) ==
    /\ Membership(i) /\ inst[i].op = "delete"
    /\ inst[i].pc = (IF inst[i].kind = "natassoc" THEN "start" ELSE "get")
    /\ inst'[i].got = "ok"

\* C31: a membership Delete that finds its member already absent from a
\* parent that exists does not fail: it returns success at once, or goes on
\* to submit the collection exactly as it fetched it, so that a second
\* Delete changes nothing on the parent.
C31_DeleteAbsentMember ==
    [][\A i \in Inst :
         (DeleteEvaluates(i) /\ MemberAbsent(i)) =>
            \/ /\ inst'[i].pc = "idle" /\ inst'[i].res = "ok" /\ inst'[i].subs = 0
            \/ /\ inst'[i].pc = "put"
               /\ Collection(i, inst'[i].snap) = Collection(i, ParentState(i))]_vars

\* C32: one invocation of Create, Update or Delete issues at most one
\* mutating request (`subs` counts the requests issued, failed ones
\* included), and the step that issues it either goes on to await the
\* accepted request or returns; a Create or Update that returns there
\* returns an error: the request is not issued again.
C32_NoRetry ==
    [][\A i \in Inst :
         (inst[i].op \in {"create", "update", "delete"} /\ inst[i].pc # "idle")
         => /\ inst'[i].subs <= 1
            /\ (inst'[i].subs = inst[i].subs + 1 /\ inst'[i].pc \notin {"wait", "poll", "get_id"})
                 => (inst'[i].pc = "idle"
                     /\ (inst'[i].res = "ok" => inst[i].op = "delete"))]_vars

\* a Create issued its one request, the request returned an error, and the
\* Create returned the error with nothing changed remotely
C32_Witness ==
    \E i \in Inst :
        /\ inst[i].kind \in {"sqlpool", "route", "backupcontainer"}
        /\ Finished(i, "create") /\ inst[i].subs = 1
        /\ inst[i].res = "error" /\ inst[i].id = NoId
        /\ (inst[i].kind = "sqlpool" => ~obj.exists)

\* the wait of instance i has returned one of: success (Create goes on to
\* fetch the ID, Delete returns ok), remote failure (failed status request or
\* a status with an error body), unexpected status, timeout
WaitReturned(i) ==
    \/ inst[i].pc = "get_id"
    \/ /\ inst[i].pc = "idle"
       /\ inst[i].res \in {"ok", "error", "remote_failure", "unexpected_state",
                           "timeout", "deadline_exceeded"}

\* C33: the operation poller always terminates: a wait that has started
\* eventually returns success, remote failure, unexpected-status error or
\* timeout, whatever the status endpoint answers.
C33_PollerTerminates ==
    \A i \in Inst : (inst[i].pc = "poll") ~> WaitReturned(i)

\* the step is a status request of instance i's wait
Polls(i) ==
    /\ inst[i].kind = "backupcontainer" /\ inst[i].pc = "poll"
    /\ inst'[i].polls = inst[i].polls + 1

\* the wait of instance i reports success in this step
WaitSucceeds(i) ==
    /\ inst[i].kind = "backupcontainer" /\ inst[i].pc = "poll"
    /\ \/ inst'[i].pc = "get_id"
       \/ inst'[i].pc = "idle" /\ inst'[i].res = "ok"

VaultProtected(keyVaultKeyId) ==
    LET n == IF keyVaultKeyId = "k1" THEN "v1" ELSE "v2"
    IN obj.vaults[n].softDelete /\ obj.vaults[n].purgeProtection

\* the step of a disk encryption set Create or Update that validates the vault
ValidatesVault(i) ==
    /\ inst[i].kind = "des"
    /\ \/ inst[i].op = "create" /\ inst[i].pc = "vault"
       \/ inst[i].op = "update" /\ inst[i].pc = "start" /\ inst[i].changed
    /\ inst'[i] # inst[i]

\* C35: a disk encryption set gets no active key from a vault without soft
\* delete and purge protection: a create or update request that carries a key
\* is issued only after the same invocation has checked the key's vault and
\* found both enabled; when either is disabled the check returns an error and
\* the invocation issues no request; a key that becomes the active key is in a
\* vault with both enabled.
C35_KeyFromProtectedVault ==
    [][\A i \in Inst :
         (inst[i].kind = "des" /\ inst[i].op \in {"create", "update"}) =>
            /\ (inst'[i].subs = inst[i].subs + 1
                    /\ (inst[i].op = "create" \/ inst[i].changed))
                 => /\ inst[i].pc = "put"
                    /\ inst[i].aux = (IF inst[i].key = "k1" THEN "v1" ELSE "v2")
                    /\ VaultProtected(inst[i].key)
            /\ (ValidatesVault(i) /\ ~VaultProtected(inst[i].key))
                 => /\ inst'[i].pc = "idle" /\ inst'[i].res = "error"
                    /\ inst'[i].subs = 0
                    /\ obj' = obj
            /\ (inst[i].pc = "wait" /\ inst'[i] # inst[i] /\ obj'.key # obj.key)
                 => /\ obj'.key = inst[i].key
                    /\ VaultProtected(obj'.key)]_vars

\* a Create that was accepted after the check of a protected vault and gave
\* the set its key, next to vault v1 without purge protection
C35_Witness ==
    \E i \in Inst :
        /\ inst[i].kind = "des" /\ inst[i].op = "create" /\ inst[i].pc = "get_id"
        /\ inst[i].subs = 1 /\ inst[i].aux = "v2" /\ inst[i].key = "k2"
        /\ obj.exists /\ obj.key = "k2" /\ obj.by = i
        /\ obj.vaults["v1"].softDelete /\ ~obj.vaults["v1"].purgeProtection

====
